---- MODULE Spec2Model ----
(***************************************************************************)
(* shape-runner: a schema model with a structural validator (types.rs),    *)
(* the task schemas (shape.rs) and the bounded retry loop that turns the   *)
(* text of a generative model into a schema-conformant value (llm.rs).     *)
(*                                                                         *)
(* Text is modelled as a sequence of string pieces: a format!/push_str in  *)
(* the source is a concatenation of pieces here, so "the prompt contains   *)
(* the message" is a statement about contiguous pieces.                    *)
(***************************************************************************)
EXTENDS Integers, Sequences, FiniteSets, TLC

VARIABLES
    task,            \* which orchestrator function runs: "FeatureDesign" / "Formation"
    input,           \* its input record (FeatureDesignInput / FormationInput)
    pc,              \* position of the invocation inside the loop body
    attempt,         \* loop variable `attempt` of `for attempt in 0..max_retries`
    last_errors,     \* Option<Vec<ValidationError>>
    last_json_error, \* Option<String>
    prompt,          \* the prompt built for the current attempt
    llm_json_text,   \* the text returned by call_llm in the current attempt
    value,           \* the serde_json::Value parsed in the current attempt
    calls,           \* number of model calls issued by this invocation
    outcomes,        \* per finished attempt: what the attempt ended in
    result,          \* what the invocation returned (or that it has not yet)
    vty,             \* validate under test: the schema
    vvalue,          \* validate under test: the value
    vresult,         \* validate under test: the returned Result
    vpc,             \* validate under test: "call" before, "ret" after
    request,         \* RunRequest { shape_id, input } received by the dispatcher
    rpc,             \* position of ShapeRunnerService::run for that request
    response,        \* Result<Response<RunResponse>, Status> of run
    client,          \* the caller in run_shape / run_shape_with_timeout
    is_ollama,       \* LlmClient.is_ollama: which Model Caller call_llm uses
    san_raw,         \* the text in the body of the model endpoint's response
    san_text,        \* the String returned by call_llm / clean_json_response
    san_again,       \* clean_json_response applied to that String once more
    san_parsed,      \* serde_json::from_str of the returned String
    san_pc,          \* position of the call under test
    parked,          \* the locals of the other invocation while this one runs
    attempt_count,   \* mock server: AppState.attempt_count, shared by all connections
    fail_attempts,   \* mock server: AppState.fail_attempts
    conn             \* mock server: the accepted connections, in accept order

vars == <<task, input, pc, attempt, last_errors, last_json_error, prompt,
          llm_json_text, value, calls, outcomes, result,
          vty, vvalue, vresult, vpc,
          request, rpc, response, client,
          is_ollama, san_raw, san_text, san_again, san_parsed, san_pc,
          parked,
          attempt_count, fail_attempts, conn>>

orchVars == <<task, input, pc, attempt, last_errors, last_json_error, prompt,
              llm_json_text, value, calls, outcomes, result>>

valVars == <<vty, vvalue, vresult, vpc>>

runVars == <<request, rpc, response, client>>

sanVars == <<is_ollama, san_raw, san_text, san_again, san_parsed, san_pc>>

concVars == <<parked>>

mockVars == <<attempt_count, fail_attempts, conn>>

\* everything outside the locals of the retry loop
envVars == <<valVars, runVars, sanVars, concVars, mockVars>>

(***************************************************************************)
(* Bounds of the model.                                                    *)
(***************************************************************************)
\* longest array in a generated JSON value
MaxItems == 2
\* largest unit_count of a FormationInput
MaxUnitCount == 3
\* longest coordinates array in a model response
MaxCoords == 3
\* connections the mock server accepts
MaxConns == 3
\* largest MOCK_LLM_FAIL_ATTEMPTS
MaxFailAttempts == 2

(***************************************************************************)
(* Option<T>                                                               *)
(***************************************************************************)
None == [some |-> FALSE, v |-> <<>>]
Some(x) == [some |-> TRUE, v |-> x]

(***************************************************************************)
(* types.rs: TypeDef and FieldDef                                          *)
(***************************************************************************)
Text == [k |-> "Text", inner |-> <<>>, fields |-> <<>>]
Markdown == [k |-> "Markdown", inner |-> <<>>, fields |-> <<>>]
Number == [k |-> "Number", inner |-> <<>>, fields |-> <<>>]
Bool == [k |-> "Bool", inner |-> <<>>, fields |-> <<>>]
List(elem) == [k |-> "List", inner |-> <<elem>>, fields |-> <<>>]
Object(fs) == [k |-> "Object", inner |-> <<>>, fields |-> fs]
FieldDef(n, t) == [name |-> n, ty |-> t]

(***************************************************************************)
(* serde_json::Value.  An object is a map from keys to values (m), an      *)
(* array a sequence (items); s is the content of a scalar.                 *)
(***************************************************************************)
JNull == [t |-> "null", s |-> "null", items |-> <<>>, m |-> <<>>]
JBool(b) == [t |-> "boolean", s |-> b, items |-> <<>>, m |-> <<>>]
JNum(n) == [t |-> "number", s |-> n, items |-> <<>>, m |-> <<>>]
JStr(x) == [t |-> "string", s |-> x, items |-> <<>>, m |-> <<>>]
JArr(xs) == [t |-> "array", s |-> "", items |-> xs, m |-> <<>>]
JObj(map) == [t |-> "object", s |-> "", items |-> <<>>, m |-> map]

\* a string test that lets null pass as an absent string
is_string_or_null(v) == v.t \in {"string", "null"}

\* Value::is_string, is_number, is_boolean
is_string(v) == v.t = "string"
is_number(v) == v.t = "number"
is_boolean(v) == v.t = "boolean"

value_type_name(v) ==
    CASE v.t = "null" -> "null"
      [] v.t = "boolean" -> "boolean"
      [] v.t = "number" -> "number"
      [] v.t = "string" -> "string"
      [] v.t = "array" -> "array"
      [] v.t = "object" -> "object"

(***************************************************************************)
(* types.rs: ValidationError and its Display                               *)
(***************************************************************************)
MissingField(path) ==
    [kind |-> "MissingField", path |-> path, expected |-> <<>>, found |-> <<>>]
TypeMismatch(path, expected, found) ==
    [kind |-> "TypeMismatch", path |-> path, expected |-> expected, found |-> found]

\* impl Display for ValidationError
to_string(e) ==
    IF e.kind = "MissingField"
    THEN <<"Missing required field at path ">> \o e.path
    ELSE <<"Type mismatch at ">> \o e.path \o <<": expected ">> \o e.expected
             \o <<", found ">> \o e.found

(***************************************************************************)
(* types.rs: validate / validate_inner.  `errors` is the &mut Vec that the *)
(* source threads through the recursion; each operator returns it as it is *)
(* after the call.                                                         *)
(***************************************************************************)
RootPath == <<"$">>
\* format!("{path}[{idx}]")
IndexPath(path, idx) == path \o <<"[", ToString(idx), "]">>
\* format!("{path}.{}", field.name)
FieldPath(path, name) == path \o <<".", name>>

RECURSIVE validate_inner(_, _, _, _)
RECURSIVE validate_items(_, _, _, _, _)
RECURSIVE validate_items_until_error(_, _, _, _, _)
RECURSIVE validate_fields_reversed(_, _, _, _, _)
RECURSIVE validate_fields_null_absent(_, _, _, _, _)
RECURSIVE validate_fields(_, _, _, _, _)

\* a loop over the elements that ends at the first element with an error
validate_items_until_error(inner, items, path, errors, i) ==
    IF i > Len(items) THEN errors
    ELSE LET after == validate_inner(inner, items[i], IndexPath(path, i - 1), errors)
         IN IF after # errors THEN after
            ELSE validate_items_until_error(inner, items, path, after, i + 1)

\* for (idx, item) in items.iter().enumerate(); i is idx + 1
validate_items(inner, items, path, errors, i) ==
    IF i > Len(items) THEN errors
    ELSE validate_items(inner, items, path,
             validate_inner(inner, items[i], IndexPath(path, i - 1), errors),
             i + 1)

\* a loop over the declared fields that takes a null for an absent key
validate_fields_null_absent(fields, obj, path, errors, i) ==
    IF i > Len(fields) THEN errors
    ELSE LET field == fields[i]
             field_path == FieldPath(path, field.name)
         IN validate_fields_null_absent(fields, obj, path,
                IF field.name \notin DOMAIN obj \/ obj[field.name] = JNull
                THEN Append(errors, MissingField(field_path))
                ELSE validate_inner(field.ty, obj[field.name], field_path, errors),
                i + 1)

\* a loop over the declared fields from the last to the first
validate_fields_reversed(fields, obj, path, errors, i) ==
    IF i > Len(fields) THEN errors
    ELSE LET field == fields[Len(fields) + 1 - i]
             field_path == FieldPath(path, field.name)
         IN validate_fields_reversed(fields, obj, path,
                IF field.name \notin DOMAIN obj
                THEN Append(errors, MissingField(field_path))
                ELSE validate_inner(field.ty, obj[field.name], field_path, errors),
                i + 1)

\* for field in fields
validate_fields(fields, obj, path, errors, i) ==
    IF i > Len(fields) THEN errors
    ELSE LET field == fields[i]
             field_path == FieldPath(path, field.name)
         IN validate_fields(fields, obj, path,
                IF field.name \notin DOMAIN obj
                THEN Append(errors, MissingField(field_path))
                ELSE validate_inner(field.ty, obj[field.name], field_path, errors),
                i + 1)

\* a validator that goes on to the declared fields of a value that is no
\* object, finding every one of them missing
validate_inner_descending(ty, v, path, errors) ==
    CASE ty.k \in {"Text", "Markdown"} ->
            IF ~is_string(v)
            THEN Append(errors, TypeMismatch(path, <<"string">>, <<value_type_name(v)>>))
            ELSE errors
      [] ty.k = "Number" ->
            IF ~is_number(v)
            THEN Append(errors, TypeMismatch(path, <<"number">>, <<value_type_name(v)>>))
            ELSE errors
      [] ty.k = "Bool" ->
            IF ~is_boolean(v)
            THEN Append(errors, TypeMismatch(path, <<"boolean">>, <<value_type_name(v)>>))
            ELSE errors
      [] ty.k = "List" ->
            IF v.t = "array"
            THEN validate_items(ty.inner[1], v.items, path, errors, 1)
            ELSE Append(errors, TypeMismatch(path, <<"array">>, <<value_type_name(v)>>))
      [] ty.k = "Object" ->
            IF v.t # "object"
            THEN validate_fields(ty.fields, <<>>, path,
                     Append(errors, TypeMismatch(path, <<"object">>,
                                                 <<value_type_name(v)>>)), 1)
            ELSE validate_fields(ty.fields, v.m, path, errors, 1)

validate_inner(ty, v, path, errors) ==
    CASE ty.k \in {"Text", "Markdown"} ->
            IF ~is_string(v)
            THEN Append(errors, TypeMismatch(path, <<"string">>, <<value_type_name(v)>>))
            ELSE errors
      [] ty.k = "Number" ->
            IF ~is_number(v)
            THEN Append(errors, TypeMismatch(path, <<"number">>, <<value_type_name(v)>>))
            ELSE errors
      [] ty.k = "Bool" ->
            IF ~is_boolean(v)
            THEN Append(errors, TypeMismatch(path, <<"boolean">>, <<value_type_name(v)>>))
            ELSE errors
      [] ty.k = "List" ->
            IF v.t = "array"
            THEN validate_items(ty.inner[1], v.items, path, errors, 1)
            ELSE Append(errors, TypeMismatch(path, <<"array">>, <<value_type_name(v)>>))
      [] ty.k = "Object" ->
            IF v.t # "object"
            THEN Append(errors, TypeMismatch(path, <<"object">>, <<value_type_name(v)>>))
            ELSE validate_fields(ty.fields, v.m, path, errors, 1)

\* Result<(), Vec<ValidationError>>
VOk == [ok |-> TRUE, errors |-> <<>>]
VErr(errors) == [ok |-> FALSE, errors |-> errors]

\* a validator that stops at the first violation
validate_first_only(ty, v) ==
    LET errors == validate_inner(ty, v, RootPath, <<>>)
    IN IF errors = <<>> THEN VOk ELSE VErr(SubSeq(errors, 1, 1))

\* a validator with a closed-world policy: an undeclared key is an error
validate_deny_unknown(ty, v) ==
    LET errors == validate_inner(ty, v, RootPath, <<>>)
        unknown ==
            IF /\ ty.k = "Object"
               /\ v.t = "object"
               /\ \E key \in DOMAIN v.m :
                      \A i \in 1..Len(ty.fields) : ty.fields[i].name # key
            THEN <<TypeMismatch(RootPath, <<"object">>, <<"object with unknown keys">>)>>
            ELSE <<>>
    IN IF errors \o unknown = <<>> THEN VOk ELSE VErr(errors \o unknown)

validate(ty, v) ==
    LET errors == validate_inner(ty, v, RootPath, <<>>)
    IN IF errors = <<>> THEN VOk ELSE VErr(errors)

(***************************************************************************)
(* shape.rs: the schemas of the two tasks                                  *)
(***************************************************************************)
feature_design_output_typedef ==
    Object(<<FieldDef("name", Text),
             FieldDef("rationale", Markdown),
             FieldDef("components",
                 List(Object(<<FieldDef("id", Text),
                               FieldDef("responsibility", Text),
                               FieldDef("api", Markdown)>>))),
             FieldDef("risks", List(Text))>>)

formation_output_typedef ==
    Object(<<FieldDef("coordinates",
                 List(Object(<<FieldDef("x", Number),
                               FieldDef("y", Number)>>)))>>)

(***************************************************************************)
(* The JSON values handed to validate: for a schema, the values that match *)
(* it and the values that leave it at any position (another kind, a        *)
(* missing field, an undeclared key, a shorter or longer array).           *)
(***************************************************************************)
AllKinds == {JNull, JBool("true"), JNum("1"), JStr("a"), JArr(<<>>), JObj(<<>>)}

\* the map m with key k set to v
MapPut(m, k, v) == [x \in (DOMAIN m) \cup {k} |-> IF x = k THEN v ELSE m[x]]

\* all sequences over S of length 0..n
RECURSIVE SeqsUpTo(_, _)
SeqsUpTo(S, n) ==
    IF n = 0 THEN {<<>>}
    ELSE LET shorter == SeqsUpTo(S, n - 1)
         IN shorter \cup {Append(q, x) : q \in {r \in shorter : Len(r) = n - 1}, x \in S}

RECURSIVE Gen(_, _)
RECURSIVE GenMaps(_, _)

\* the maps that give each of fields[i..] either no entry or a generated value
GenMaps(fields, i) ==
    IF i > Len(fields) THEN {<<>>}
    ELSE LET rest == GenMaps(fields, i + 1)
         IN rest \cup {MapPut(m, fields[i].name, v) : m \in rest, v \in Gen(fields[i].ty, FALSE)}

Gen(ty, top) ==
    CASE top /\ ty.k \in {"Text", "Markdown", "Number", "Bool"} -> AllKinds
      [] ~top /\ ty.k \in {"Text", "Markdown"} -> {JStr("a"), JNull}
      [] ~top /\ ty.k = "Number" -> {JNum("1"), JNull}
      [] ~top /\ ty.k = "Bool" -> {JBool("true"), JNull}
      [] ty.k = "List" ->
            (IF top THEN AllKinds ELSE {JNull, JObj(<<>>)})
                \cup {JArr(q) : q \in SeqsUpTo(Gen(ty.inner[1], FALSE), MaxItems)}
      [] ty.k = "Object" ->
            LET maps == GenMaps(ty.fields, 1)
            IN (IF top THEN AllKinds ELSE {JNull, JArr(<<>>)})
                 \cup {JObj(m) : m \in maps}
                 \cup {JObj(MapPut(m, "extra", JNum("1"))) : m \in maps}

\* the schemas validate is exercised on
TestSchemas ==
    {Text, Markdown, Number, Bool,
     List(Text), List(List(Number)),
     Object(<<FieldDef("a", Text), FieldDef("b", Number), FieldDef("c", Bool)>>),
     Object(<<FieldDef("a", List(Text)),
              FieldDef("b", Object(<<FieldDef("c", Markdown)>>))>>),
     formation_output_typedef}

(***************************************************************************)
(* llm.rs: the text a model call returns.  The loop uses a text in three   *)
(* ways: serde_json::from_str, len() and the prefix slices &text[..500]    *)
(* and &text[..200] of the diagnostic output.  A text is therefore its     *)
(* body (the JSON document it spells, or the defect that makes it          *)
(* unparseable), its length in bytes and the byte offsets that lie inside  *)
(* a multi-byte character.                                                 *)
(***************************************************************************)
max_retries == 3
PreviewLen == 500
ParseLogLen == 200

JsonBody(v) == [json |-> TRUE, defect |-> "", value |-> v]
DefectBody(d) == [json |-> FALSE, defect |-> d, value |-> JNull]
TextOf(body, shape) ==
    [body |-> body, len |-> shape.len, inside |-> shape.inside]

\* str::is_char_boundary
is_char_boundary(text, k) == k \notin text.inside

\* &text[..k]: a prefix slice panics unless k is a character boundary
SlicePanics(text, k) == k <= text.len /\ ~is_char_boundary(text, k)

\* short ASCII text; long text with a multi-byte character across byte 200;
\* long text with one across byte 500; long ASCII text
Shapes ==
    {[len |-> 40, inside |-> {}],
     [len |-> 260, inside |-> {200}],
     [len |-> 640, inside |-> {500}],
     [len |-> 640, inside |-> {}]}

\* the message of the serde_json error for each defect
ParseMessage(defect) ==
    CASE defect = "prose" -> <<"expected value at line 1 column 1">>
      [] defect = "bare_key" -> <<"key must be a string at line 1 column 21">>
      [] defect = "truncated" -> <<"EOF while parsing an object at line 1 column 9">>

Defects == {"prose", "bare_key", "truncated"}

\* Result<Value, serde_json::Error>
ParseOk(v) == [ok |-> TRUE, v |-> v, msg |-> <<>>]
ParseErr(msg) == [ok |-> FALSE, v |-> JNull, msg |-> msg]

\* serde_json::from_str(&llm_json_text), with format!("{}", e) of its error
from_str(text) ==
    IF text.body.json THEN ParseOk(text.body.value)
    ELSE ParseErr(ParseMessage(text.body.defect))

(***************************************************************************)
(* llm.rs: clean_json_response.  Here a text is the sequence of its        *)
(* characters, each a one-character string; "\f" stands for the control    *)
(* characters other than newline, tab and carriage return.                 *)
(***************************************************************************)
\* char::is_whitespace, as str::trim uses it
is_whitespace(c) == c \in {" ", "\n", "\t", "\r", "\f"}
\* '\u{0000}'..='\u{001F}'
is_control(c) == c \in {"\n", "\t", "\r", "\f"}

RECURSIVE trim_start(_)
trim_start(cs) ==
    IF cs # <<>> /\ is_whitespace(Head(cs)) THEN trim_start(Tail(cs)) ELSE cs

RECURSIVE trim_end(_)
trim_end(cs) ==
    IF cs # <<>> /\ is_whitespace(cs[Len(cs)])
    THEN trim_end(SubSeq(cs, 1, Len(cs) - 1))
    ELSE cs

\* str::trim
trim(cs) == trim_end(trim_start(cs))

starts_with(cs, pat) == Len(cs) >= Len(pat) /\ SubSeq(cs, 1, Len(pat)) = pat
ends_with(cs, pat) ==
    Len(cs) >= Len(pat) /\ SubSeq(cs, Len(cs) - Len(pat) + 1, Len(cs)) = pat

\* str::find(char) / str::rfind(char): the 1-based position, 0 for None
find(cs, c) ==
    IF \E i \in 1..Len(cs) : cs[i] = c
    THEN CHOOSE i \in 1..Len(cs) : cs[i] = c /\ \A j \in 1..(i - 1) : cs[j] # c
    ELSE 0
rfind(cs, c) ==
    IF \E i \in 1..Len(cs) : cs[i] = c
    THEN CHOOSE i \in 1..Len(cs) : cs[i] = c /\ \A j \in (i + 1)..Len(cs) : cs[j] # c
    ELSE 0

\* str::replace(from, to): every non-overlapping match, left to right
RECURSIVE replace(_, _, _)
replace(cs, from, to) ==
    IF Len(cs) < Len(from) THEN cs
    ELSE IF SubSeq(cs, 1, Len(from)) = from
         THEN to \o replace(SubSeq(cs, Len(from) + 1, Len(cs)), from, to)
         ELSE <<Head(cs)>> \o replace(Tail(cs), from, to)

\* the grave accent (U+0060), which a string of this module cannot spell
Backtick == "U+0060"
Fence == <<Backtick, Backtick, Backtick>>

\* if cleaned.starts_with(three backticks) { ... }
strip_fence(cleaned) ==
    IF starts_with(cleaned, Fence)
    THEN LET start_idx == find(cleaned, "\n")
             body == IF start_idx # 0
                     THEN SubSeq(cleaned, start_idx + 1, Len(cleaned))
                     ELSE SubSeq(cleaned, 4, Len(cleaned))
         IN IF ends_with(body, Fence) THEN SubSeq(body, 1, Len(body) - 3) ELSE body
    ELSE cleaned

\* for (i, c) in cleaned[first_brace..].char_indices(): the position where
\* brace_count returns to 0, or 0 when it never does
RECURSIVE matching_brace(_, _, _)
matching_brace(cs, i, brace_count) ==
    IF i > Len(cs) THEN 0
    ELSE IF cs[i] = "{" THEN matching_brace(cs, i + 1, brace_count + 1)
    ELSE IF cs[i] = "}"
         THEN IF brace_count - 1 = 0 THEN i
              ELSE matching_brace(cs, i + 1, brace_count - 1)
    ELSE matching_brace(cs, i + 1, brace_count)

\* an extraction from the first opening brace to the last closing brace
extract_object_to_last(cleaned) ==
    LET first_brace == find(cleaned, "{")
        fallback_brace == rfind(cleaned, "}")
    IN IF first_brace # 0 /\ fallback_brace > first_brace
       THEN SubSeq(cleaned, first_brace, fallback_brace)
       ELSE cleaned

\* an extraction whose slice starts one character late
extract_object_inner(cleaned) ==
    LET first_brace == find(cleaned, "{")
    IN IF first_brace = 0 THEN cleaned
       ELSE LET last_brace == matching_brace(cleaned, first_brace, 0)
                fallback_brace == rfind(cleaned, "}")
            IN IF last_brace # 0 THEN SubSeq(cleaned, first_brace + 1, last_brace)
               ELSE IF fallback_brace # 0 /\ fallback_brace > first_brace
                    THEN SubSeq(cleaned, first_brace + 1, fallback_brace)
                    ELSE cleaned

\* if let Some(first_brace) = cleaned.find(an opening brace) { ... }
extract_object(cleaned) ==
    LET first_brace == find(cleaned, "{")
    IN IF first_brace = 0 THEN cleaned
       ELSE LET last_brace == matching_brace(cleaned, first_brace, 0)
                fallback_brace == rfind(cleaned, "}")
            IN IF last_brace # 0 THEN SubSeq(cleaned, first_brace, last_brace)
               ELSE IF fallback_brace # 0 /\ fallback_brace > first_brace
                    THEN SubSeq(cleaned, first_brace, fallback_brace)
                    ELSE cleaned

\* a filter that drops every whitespace character with the control
\* characters, the spaces inside string literals too
RECURSIVE filter_whitespace(_)
filter_whitespace(cs) ==
    IF cs = <<>> THEN <<>>
    ELSE LET c == Head(cs)
         IN (IF c = " " \/ is_control(c) THEN <<>>
             ELSE <<c>>) \o filter_whitespace(Tail(cs))

\* a filter that removes newlines instead of putting a space, and lets the
\* carriage return through
RECURSIVE filter_control_lines(_)
filter_control_lines(cs) ==
    IF cs = <<>> THEN <<>>
    ELSE LET c == Head(cs)
         IN (IF c = "\t" THEN <<" ">>
             ELSE IF c = "\r" THEN <<c>>
             ELSE IF is_control(c) THEN <<>>
             ELSE <<c>>) \o filter_control_lines(Tail(cs))

\* .chars().filter_map(..).collect()
RECURSIVE filter_control(_)
filter_control(cs) ==
    IF cs = <<>> THEN <<>>
    ELSE LET c == Head(cs)
         IN (IF c \in {"\n", "\t"} THEN <<" ">>
             ELSE IF is_control(c) THEN <<>>
             ELSE <<c>>) \o filter_control(Tail(cs))

\* a sanitizer that knows the trailing comma of an array only
strip_trailing_commas_of_arrays(res) ==
    replace(replace(res, <<",", "]">>, <<"]">>), <<",", " ", "]">>, <<"]">>)

\* the four result.replace(..) calls
strip_trailing_commas(res) ==
    replace(replace(replace(replace(res, <<",", "}">>, <<"}">>),
                            <<",", "]">>, <<"]">>),
                    <<",", " ", "}">>, <<"}">>),
            <<",", " ", "]">>, <<"]">>)

clean_json_response(raw_response) ==
    LET unfenced == trim(strip_fence(trim(raw_response)))
        cleaned_str == filter_control(extract_object(unfenced))
    IN trim(strip_trailing_commas(trim(cleaned_str)))

(***************************************************************************)
(* serde_json::from_str::<Value> on a text given by its characters: the    *)
(* JSON grammar without \u escapes and without exponents.  A parse step    *)
(* returns the value and the position after it, or the error with the      *)
(* position it was found at.                                               *)
(***************************************************************************)
Digits == {"0", "1", "2", "3", "4", "5", "6", "7", "8", "9"}
JsonWs == {" ", "\n", "\t", "\r"}

POk(v, i) == [ok |-> TRUE, v |-> v, next |-> i, msg |-> <<>>]
PErr(what, i) ==
    [ok |-> FALSE, v |-> JNull, next |-> i, msg |-> <<what, " at character ", ToString(i)>>]

RECURSIVE skip_ws(_, _)
skip_ws(cs, i) ==
    IF i <= Len(cs) /\ cs[i] \in JsonWs THEN skip_ws(cs, i + 1) ELSE i

\* the character an escape sequence stands for
Unescape(c) ==
    CASE c = "n" -> "\n"
      [] c = "t" -> "\t"
      [] c = "r" -> "\r"
      [] c \in {"b", "f"} -> "\f"
      [] OTHER -> c

\* i is the position after the opening quote
RECURSIVE parse_str(_, _, _)
parse_str(cs, i, acc) ==
    IF i > Len(cs) THEN PErr("EOF while parsing a string", i)
    ELSE IF cs[i] = "\"" THEN POk(JStr(acc), i + 1)
    ELSE IF cs[i] = "\\"
         THEN IF i + 1 > Len(cs) THEN PErr("EOF while parsing a string", i + 1)
              ELSE IF cs[i + 1] \in {"\"", "\\", "/", "b", "f", "n", "r", "t"}
                   THEN parse_str(cs, i + 2, acc \o Unescape(cs[i + 1]))
                   ELSE PErr("invalid escape", i + 1)
    ELSE IF is_control(cs[i])
         THEN PErr("control character found while parsing a string", i)
    ELSE parse_str(cs, i + 1, acc \o cs[i])

\* the digits from position i on, and the position after them
RECURSIVE parse_digits(_, _, _)
parse_digits(cs, i, acc) ==
    IF i <= Len(cs) /\ cs[i] \in Digits
    THEN parse_digits(cs, i + 1, acc \o cs[i])
    ELSE [s |-> acc, next |-> i]

parse_number(cs, i) ==
    LET sign == IF cs[i] = "-" THEN "-" ELSE ""
        j == IF cs[i] = "-" THEN i + 1 ELSE i
        int == parse_digits(cs, j, "")
        frac == parse_digits(cs, int.next + 1, "")
    IN IF int.s = "" THEN PErr("invalid number", j)
       ELSE IF cs[j] = "0" /\ int.next > j + 1 THEN PErr("invalid number", j + 1)
       ELSE IF int.next <= Len(cs) /\ cs[int.next] = "."
            THEN IF frac.s = "" THEN PErr("invalid number", int.next + 1)
                 ELSE POk(JNum(sign \o int.s \o "." \o frac.s), frac.next)
       ELSE POk(JNum(sign \o int.s), int.next)

parse_ident(cs, i, word, v) ==
    IF i + Len(word) - 1 <= Len(cs) /\ SubSeq(cs, i, i + Len(word) - 1) = word
    THEN POk(v, i + Len(word))
    ELSE PErr("expected ident", i)

RECURSIVE parse_value(_, _)
RECURSIVE parse_members(_, _, _)
RECURSIVE parse_items(_, _, _)

\* i is the position of the next key
parse_members(cs, i, m) ==
    IF i > Len(cs) THEN PErr("EOF while parsing an object", i)
    ELSE IF cs[i] = "}" THEN PErr("trailing comma", i)
    ELSE IF cs[i] # "\"" THEN PErr("key must be a string", i)
    ELSE LET key == parse_str(cs, i + 1, "")
             colon == skip_ws(cs, key.next)
             val == parse_value(cs, colon + 1)
             after == skip_ws(cs, val.next)
             map == MapPut(m, key.v.s, val.v)
         IN IF ~key.ok THEN key
            ELSE IF colon > Len(cs) THEN PErr("EOF while parsing an object", colon)
            ELSE IF cs[colon] # ":" THEN PErr("expected colon", colon)
            ELSE IF ~val.ok THEN val
            ELSE IF after > Len(cs) THEN PErr("EOF while parsing an object", after)
            ELSE IF cs[after] = "," THEN parse_members(cs, skip_ws(cs, after + 1), map)
            ELSE IF cs[after] = "}" THEN POk(JObj(map), after + 1)
            ELSE PErr("expected comma or closing brace", after)

\* i is the position of the next element
parse_items(cs, i, items) ==
    IF i > Len(cs) THEN PErr("EOF while parsing a list", i)
    ELSE IF cs[i] = "]" THEN PErr("trailing comma", i)
    ELSE LET val == parse_value(cs, i)
             after == skip_ws(cs, val.next)
         IN IF ~val.ok THEN val
            ELSE IF after > Len(cs) THEN PErr("EOF while parsing a list", after)
            ELSE IF cs[after] = ","
                 THEN parse_items(cs, skip_ws(cs, after + 1), Append(items, val.v))
            ELSE IF cs[after] = "]" THEN POk(JArr(Append(items, val.v)), after + 1)
            ELSE PErr("expected comma or closing bracket", after)

parse_value(cs, start) ==
    LET i == skip_ws(cs, start)
        inside == skip_ws(cs, i + 1)
    IN IF i > Len(cs) THEN PErr("EOF while parsing a value", i)
       ELSE CASE cs[i] = "{" ->
                    IF inside <= Len(cs) /\ cs[inside] = "}"
                    THEN POk(JObj(<<>>), inside + 1)
                    ELSE parse_members(cs, inside, <<>>)
              [] cs[i] = "[" ->
                    IF inside <= Len(cs) /\ cs[inside] = "]"
                    THEN POk(JArr(<<>>), inside + 1)
                    ELSE parse_items(cs, inside, <<>>)
              [] cs[i] = "\"" -> parse_str(cs, i + 1, "")
              [] cs[i] = "-" \/ cs[i] \in Digits -> parse_number(cs, i)
              [] cs[i] = "t" -> parse_ident(cs, i, <<"t", "r", "u", "e">>, JBool("true"))
              [] cs[i] = "f" ->
                    parse_ident(cs, i, <<"f", "a", "l", "s", "e">>, JBool("false"))
              [] cs[i] = "n" -> parse_ident(cs, i, <<"n", "u", "l", "l">>, JNull)
              [] OTHER -> PErr("expected value", i)

\* serde_json::from_str: one value, then nothing but whitespace
from_str_chars(cs) ==
    LET r == parse_value(cs, 1)
        rest == skip_ws(cs, r.next)
    IN IF ~r.ok THEN ParseErr(r.msg)
       ELSE IF rest <= Len(cs) THEN ParseErr(PErr("trailing characters", rest).msg)
       ELSE ParseOk(r.v)

(***************************************************************************)
(* The texts a model endpoint sends: JSON object documents, as they are    *)
(* and with what a model adds to them (a fence, a language tag, prose, a   *)
(* trailing comma, control characters).                                    *)
(***************************************************************************)
\* {"a":1}
DocA ==
    <<"{", "\"", "a", "\"", ":", "1", "}">>

\* {"a":[1,2],"b":{"c":true}}
DocNested ==
    <<"{", "\"", "a", "\"", ":", "[", "1", ",", "2", "]", ",", "\"", "b",
      "\"", ":", "{", "\"", "c", "\"", ":", "t", "r", "u", "e", "}", "}">>

\* {\n  "a": 1,\n  "b": "x y"\n}
DocPretty ==
    <<"{", "\n", " ", " ", "\"", "a", "\"", ":", " ", "1", ",", "\n", " ",
      " ", "\"", "b", "\"", ":", " ", "\"", "x", " ", "y", "\"", "\n", "}">>

\* {"coordinates":[{"x":1,"y":2}]}
DocFormation ==
    <<"{", "\"", "c", "o", "o", "r", "d", "i", "n", "a", "t", "e", "s",
      "\"", ":", "[", "{", "\"", "x", "\"", ":", "1", ",", "\"", "y", "\"",
      ":", "2", "}", "]", "}">>

\* {"coordinates":"none"}
DocNoCoordinates ==
    <<"{", "\"", "c", "o", "o", "r", "d", "i", "n", "a", "t", "e", "s",
      "\"", ":", "\"", "n", "o", "n", "e", "\"", "}">>

\* {}
DocEmpty ==
    <<"{", "}">>

\* {"a":"}"}
DocBraceInString ==
    <<"{", "\"", "a", "\"", ":", "\"", "}", "\"", "}">>

\* {"a":",,]"}
DocCommasInString ==
    <<"{", "\"", "a", "\"", ":", "\"", ",", ",", "]", "\"", "}">>

\* {\r\n"a":\t1\f\r\n}: lines ending in carriage return and newline, a
\* tab, and one more control character
DocCrLf ==
    <<"{", "\r", "\n", "\"", "a", "\"", ":", "\t", "1", "\f", "\r", "\n", "}">>

\* {"a":{"b":1}: an object that is not closed
Unclosed ==
    <<"{", "\"", "a", "\"", ":", "{", "\"", "b", "\"", ":", "1", "}">>

\* {"a":"[\"]"}: an escaped quote and brackets inside a string literal
DocEscapes ==
    <<"{", "\"", "a", "\"", ":", "\"", "[", "\\", "\"", "]", "\"", "}">>

\* {\t"a" :\t[ 1 ,\n2 ]\r\n}: whitespace of every kind between the tokens
DocSpaced ==
    <<"{", "\t", "\"", "a", "\"", " ", ":", "\t", "[", " ", "1", " ", ",",
      "\n", "2", " ", "]", "\r", "\n", "}">>

\* documents whose string literals hold no brace and no comma
PlainDocs == {DocA, DocNested, DocPretty, DocFormation, DocNoCoordinates, DocEmpty}
\* clean JSON object documents
CleanDocs == PlainDocs \cup {DocBraceInString, DocCommasInString}

\* the document with a trailing comma, and gap between it and the closing brace
TrailingComma(doc, gap) ==
    SubSeq(doc, 1, Len(doc) - 1) \o <<",">> \o gap \o <<"}">>

\* what stands between the trailing comma and the closing brace
Gaps == {<<>>, <<" ">>, <<"\n">>, <<"\n", " ", " ">>}
NarrowGaps == {g \in Gaps : Len(g) <= 1}

LanguageTags == {<<"j", "s", "o", "n">>, <<"J", "S", "O", "N">>}

\* three backticks, the tag, a newline, the body, a newline, three backticks
Fenced(tag, body) == Fence \o tag \o <<"\n">> \o body \o <<"\n">> \o Fence

FencedTrailing ==
    {Fenced(tag, TrailingComma(doc, gap)) :
        tag \in LanguageTags, doc \in CleanDocs \ {DocEmpty}, gap \in Gaps}

RawTexts ==
    CleanDocs
    \cup FencedTrailing
    \cup {Fenced(<<>>, doc) : doc \in CleanDocs}
    \cup {Fence \o doc \o Fence : doc \in PlainDocs}
    \cup {<<"S", "u", "r", "e", ":", " ">> \o doc \o <<" ", "o", "k">> : doc \in PlainDocs}
    \cup {<<" ", "\n">> \o doc \o <<"\r", "\n">> : doc \in PlainDocs}
    \cup {<<"\f">> \o TrailingComma(doc, <<"\t">>) : doc \in PlainDocs \ {DocEmpty}}
    \cup {<<"n", "o", " ", "j", "s", "o", "n">>, <<"[", "1", ",", "]">>,
          <<"{", "\"", "a", "\"", ":">>, <<>>}
    \cup {DocCrLf, <<"n", "o", "\r", "\n", "\t", "j", "\f", "s", "o", "n">>}
    \cup {DocEscapes, DocSpaced}
    \cup {DocA \o <<" ">> \o DocNested, <<"x", " ">> \o Unclosed \o <<" ", "o", "k">>,
          <<"}", " ">> \o SubSeq(DocA, 1, 5), <<"a", "}", "b">>}

(***************************************************************************)
(* shape.rs: the output records and their Deserialize.  A String field     *)
(* takes a JSON string, an f64 field a JSON number, a Vec field an array   *)
(* of decodable elements; a declared field has to be present and unknown   *)
(* keys are skipped.  (serde also accepts the positional array form of a   *)
(* struct; validate never passes an array at an Object schema, so that     *)
(* form does not reach from_value here.)                                   *)
(***************************************************************************)
DecOk(x) == [ok |-> TRUE, out |-> x]
DecErr == [ok |-> FALSE, out |-> <<>>]

HasAll(v, names) == v.t = "object" /\ names \subseteq DOMAIN v.m
AllOf(v, kind) == v.t = "array" /\ \A i \in 1..Len(v.items) : v.items[i].t = kind

\* struct Component { id: String, responsibility: String, api: String }
ComponentDecodes(v) ==
    /\ HasAll(v, {"id", "responsibility", "api"})
    /\ \A n \in {"id", "responsibility", "api"} : v.m[n].t = "string"
ComponentOf(v) ==
    [id |-> v.m.id.s, responsibility |-> v.m.responsibility.s, api |-> v.m.api.s]

\* struct Coordinate { x: f64, y: f64 }
CoordinateDecodes(v) ==
    /\ HasAll(v, {"x", "y"})
    /\ \A n \in {"x", "y"} : v.m[n].t = "number"
CoordinateOf(v) == [x |-> v.m.x.s, y |-> v.m.y.s]

\* serde_json::from_value::<FeatureDesignOutput>(value)
from_value_FeatureDesignOutput(v) ==
    IF /\ HasAll(v, {"name", "rationale", "components", "risks"})
       /\ v.m.name.t = "string"
       /\ v.m.rationale.t = "string"
       /\ v.m.components.t = "array"
       /\ \A i \in 1..Len(v.m.components.items) :
              ComponentDecodes(v.m.components.items[i])
       /\ AllOf(v.m.risks, "string")
    THEN DecOk([name |-> v.m.name.s,
                rationale |-> v.m.rationale.s,
                components |-> [i \in 1..Len(v.m.components.items) |->
                                   ComponentOf(v.m.components.items[i])],
                risks |-> [i \in 1..Len(v.m.risks.items) |-> v.m.risks.items[i].s]])
    ELSE DecErr

\* a FormationOutput declared with deny_unknown_fields: an undeclared key
\* fails the decode
from_value_FormationOutput_closed(v) ==
    IF /\ HasAll(v, {"coordinates"})
       /\ DOMAIN v.m = {"coordinates"}
       /\ v.m.coordinates.t = "array"
       /\ \A i \in 1..Len(v.m.coordinates.items) :
              /\ CoordinateDecodes(v.m.coordinates.items[i])
              /\ DOMAIN v.m.coordinates.items[i].m = {"x", "y"}
    THEN DecOk([coordinates |-> [i \in 1..Len(v.m.coordinates.items) |->
                                    CoordinateOf(v.m.coordinates.items[i])]])
    ELSE DecErr

\* serde_json::from_value::<FormationOutput>(value)
from_value_FormationOutput(v) ==
    IF /\ HasAll(v, {"coordinates"})
       /\ v.m.coordinates.t = "array"
       /\ \A i \in 1..Len(v.m.coordinates.items) :
              CoordinateDecodes(v.m.coordinates.items[i])
    THEN DecOk([coordinates |-> [i \in 1..Len(v.m.coordinates.items) |->
                                    CoordinateOf(v.m.coordinates.items[i])]])
    ELSE DecErr

(***************************************************************************)
(* llm.rs: the prompts                                                     *)
(***************************************************************************)
\* " ".repeat(indent)
Pad(indent) == [i \in 1..indent |-> " "]

ScalarName(ty) ==
    CASE ty.k = "Text" -> "string\n"
      [] ty.k = "Markdown" -> "string (markdown)\n"
      [] ty.k = "Number" -> "number\n"
      [] ty.k = "Bool" -> "boolean\n"

RECURSIVE describe_schema(_, _)
RECURSIVE describe_fields(_, _, _)

\* for f in fields
describe_fields(fields, indent, i) ==
    IF i > Len(fields) THEN <<>>
    ELSE LET f == fields[i]
             line == Pad(indent) \o <<"  - ", f.name, ": ">>
             rest == CASE f.ty.k = "List" ->
                            <<"array of:\n">> \o describe_schema(f.ty.inner[1], indent + 4)
                       [] f.ty.k = "Object" ->
                            <<"nested object:\n">> \o describe_schema(f.ty, indent + 4)
                       [] OTHER -> <<ScalarName(f.ty)>>
         IN line \o rest \o describe_fields(fields, indent, i + 1)

describe_schema(ty, indent) ==
    CASE ty.k = "List" ->
            Pad(indent) \o <<"- array of:\n">> \o describe_schema(ty.inner[1], indent + 2)
      [] ty.k = "Object" ->
            Pad(indent) \o <<"- object with fields:\n">> \o describe_fields(ty.fields, indent, 1)
      [] OTHER -> Pad(indent) \o <<"- ", ScalarName(ty)>>

PromptHead(output_schema) ==
    <<"You are a system that strictly outputs JSON.\n",
      "You must produce a JSON object that matches this schema:\n\n">>
    \o describe_schema(output_schema, 0)
    \o <<"\n\nThe JSON must be parseable and not contain comments or explanations.\n",
         "Do not wrap it in markdown code fences.\n",
         "Do not include control characters (null bytes, etc.) in your output.\n",
         "Escape special characters properly in JSON strings (use \\n for newlines, etc.).\n\n">>

RECURSIVE ConstraintLines(_, _)
\* for c in &input.constraints
ConstraintLines(cs, i) ==
    IF i > Len(cs) THEN <<>>
    ELSE <<"  - ", cs[i], "\n">> \o ConstraintLines(cs, i + 1)

RECURSIVE ErrorLines(_, _)
\* for e in errors
ErrorLines(errors, i) ==
    IF i > Len(errors) THEN <<>>
    ELSE <<"- ">> \o to_string(errors[i]) \o <<"\n">> \o ErrorLines(errors, i + 1)

JsonErrorHead == "\nYour previous response was not valid JSON. The error was:\n"
JsonErrorTail ==
    "\n\nPlease output ONLY valid, parseable JSON without any control characters or formatting issues.\n"
ValidationHead == "\nYour previous JSON had these validation problems:\n"
ValidationTail == "\nFix these issues and output ONLY corrected JSON.\n"

\* if let Some(json_err) = last_json_error { ... }
JsonErrorSection(json_error) ==
    IF json_error.some
    THEN <<JsonErrorHead>> \o json_error.v \o <<JsonErrorTail>>
    ELSE <<>>

\* a renderer that reports only the first of the stored errors
ValidationSectionFirstOnly(errors) ==
    IF errors.some
    THEN <<ValidationHead>> \o ErrorLines(SubSeq(errors.v, 1, 1), 1) \o <<ValidationTail>>
    ELSE <<>>

\* if let Some(errors) = last_errors { ... }
ValidationSection(errors) ==
    IF errors.some
    THEN <<ValidationHead>> \o ErrorLines(errors.v, 1) \o <<ValidationTail>>
    ELSE <<>>

build_prompt(inp, output_schema, errors, json_error) ==
    PromptHead(output_schema)
    \o <<"Context:\n", "- Repo summary: ", inp.repo_summary, "\n- Constraints:\n">>
    \o ConstraintLines(inp.constraints, 1)
    \o JsonErrorSection(json_error)
    \o ValidationSection(errors)

build_formation_prompt(inp, output_schema, errors, json_error) ==
    PromptHead(output_schema)
    \o <<"Task: Generate 2D coordinates for unit formation.\n",
         "- Formation description: ", inp.formation_description, "\n",
         "- Number of units: ", ToString(inp.unit_count), "\n",
         "\n",
         "CRITICAL: You MUST generate EXACTLY ", ToString(inp.unit_count),
         " coordinates (x, y pairs), no more, no less.\n",
         "The coordinates array must contain exactly ", ToString(inp.unit_count),
         " items.\n",
         "Coordinates should be reasonable 2D positions (typically between 0-100 for x and y).\n",
         "The formation should be visually recognizable as the requested shape.\n",
         "\n",
         "Example output format (for 3 units):\n",
         "{\"coordinates\":[", "{\"x\":0.0,\"y\":0.0}", ",", "{\"x\":10.0,\"y\":0.0}", ",",
         "{\"x\":5.0,\"y\":10.0}", "]}\n",
         "\n",
         "CRITICAL: Output ONLY the JSON object, nothing else. No text before or after. No markdown. No explanations.\n",
         "The JSON must be valid and parseable. Do NOT include:\n",
         "- Control characters (null bytes, etc.)\n",
         "- Unescaped newlines or tabs inside JSON strings\n",
         "- Any characters outside the JSON structure\n",
         "- Trailing commas\n">>
    \o JsonErrorSection(json_error)
    \o ValidationSection(errors)

(***************************************************************************)
(* The inputs of an invocation and the answers of the model endpoint.      *)
(***************************************************************************)
FD == "FeatureDesign"
FM == "Formation"

FeatureDesignInputs ==
    {[repo_summary |-> "x", constraints |-> <<>>],
     [repo_summary |-> "x", constraints |-> <<"no unsafe">>]}

FormationInputs ==
    {[formation_description |-> "circle", unit_count |-> n] : n \in 0..MaxUnitCount}

GoodComponent ==
    JObj([id |-> JStr("svc"), responsibility |-> JStr("serve"), api |-> JStr("GET /")])
\* api is a number, responsibility is missing
BadComponent == JObj([id |-> JStr("svc"), api |-> JNum("7")])

FeatureDoc(name, components, risks) ==
    JObj([name |-> name, rationale |-> JStr("because"),
          components |-> JArr(components), risks |-> JArr(risks)])

\* the JSON documents a model returns for the feature design task
FeatureDesignValues ==
    {FeatureDoc(JStr("cache"), cs, <<JStr("stale reads")>>)
        : cs \in SeqsUpTo({GoodComponent, BadComponent}, MaxItems)}
    \cup {FeatureDoc(JNull, <<GoodComponent>>, <<JStr("stale reads"), JNum("3")>>),
          JObj([name |-> JStr("cache"), components |-> JArr(<<>>)]),
          JObj(MapPut(FeatureDoc(JStr("cache"), <<>>, <<>>).m, "notes", JStr("n/a"))),
          JObj(<<>>),
          JArr(<<>>)}

Coord(x, y) == JObj([x |-> JNum(x), y |-> JNum(y)])
\* x is a string, y is missing
BadCoord == JObj([x |-> JStr("left")])
Coords(n) == [i \in 1..n |-> Coord(ToString(i), "0.5")]

\* the JSON documents a model returns for the formation task
FormationValues ==
    {JObj([coordinates |-> JArr(Coords(n))]) : n \in 0..MaxCoords}
    \cup {JObj([coordinates |-> JArr(<<Coord("1", "2"), BadCoord>>)]),
          JObj([coordinates |-> JArr(Coords(2)), units |-> JNum("2")]),
          JObj([coordinates |-> JStr("none")]),
          JObj(<<>>),
          JNull}

ValuesOf(t) == IF t = FD THEN FeatureDesignValues ELSE FormationValues

\* the texts call_llm can return
Texts(t) ==
    {TextOf(JsonBody(v), sh) : v \in ValuesOf(t), sh \in Shapes}
    \cup {TextOf(DefectBody(d), sh) : d \in Defects, sh \in Shapes}

\* the errors call_llm can return: the request is not sent, the status is
\* not a success, the body is not the expected envelope
TransportErrors ==
    {<<"LLM HTTP error: ", "connection refused", ". URL: ", "http://llm/llm">>,
     <<"LLM HTTP error ", "500 Internal Server Error", ": ", "overloaded">>,
     <<"error decoding response body">>}

(***************************************************************************)
(* llm.rs: generate_feature_design and generate_formation                  *)
(***************************************************************************)
\* Result<Output, anyhow::Error> of the invocation
NoResult == [kind |-> "none", err |-> <<>>, out |-> <<>>]
Ok(x) == [kind |-> "Ok", err |-> <<>>, out |-> x]
Err(e) == [kind |-> "Err", err |-> e, out |-> <<>>]

\* anyhow!("LLM did not return valid JSON after {} attempts. Last error: {}", ..)
JsonExhausted(error_msg) ==
    <<"LLM did not return valid JSON after ", ToString(max_retries),
      " attempts. Last error: ">> \o error_msg
\* anyhow!("LLM failed to produce valid output after {} attempts", max_retries)
OutputExhausted ==
    <<"LLM failed to produce valid output after ", ToString(max_retries), " attempts">>
\* the serde_json error of a failed from_value, passed on by `?`
DecodeFailed == <<"invalid type or missing field">>

\* what an attempt ended in, kept for the properties: the kind of end, the
\* message of a transport or parse error, the validation errors, and the
\* value the response parsed to (None when it is not JSON or never arrived)
Outcome(kind, msg, errors, parsed) ==
    [kind |-> kind, msg |-> msg, errors |-> errors, parsed |-> parsed]

\* the orchestrator before any invocation
OrchIdle ==
    /\ task = "none"
    /\ input = [repo_summary |-> "", constraints |-> <<>>]
    /\ pc = "idle"
    /\ attempt = 0
    /\ last_errors = None
    /\ last_json_error = None
    /\ prompt = <<>>
    /\ llm_json_text = None
    /\ value = None
    /\ calls = 0
    /\ outcomes = <<>>
    /\ result = NoResult

\* validate before any call
ValIdle ==
    /\ vty = Text
    /\ vvalue = JNull
    /\ vresult = VOk
    /\ vpc = "idle"

\* no request has been sent to the service
RunIdle ==
    /\ request = [shape_id |-> "", input |-> <<>>]
    /\ rpc = "idle"
    /\ response = [kind |-> "none", code |-> "", message |-> <<>>, body |-> <<>>]
    /\ client = [pc |-> "idle", timeout |-> FALSE, result |-> NoResult]

\* the locals of an invocation that does not exist
IdleLocals ==
    [task |-> "none", input |-> [repo_summary |-> "", constraints |-> <<>>],
     pc |-> "idle", attempt |-> 0, last_errors |-> None,
     last_json_error |-> None, prompt |-> <<>>, llm_json_text |-> None,
     value |-> None, calls |-> 0, outcomes |-> <<>>, result |-> NoResult]

\* one invocation at most
ConcIdle == parked = IdleLocals

\* no mock server
MockIdle ==
    /\ attempt_count = 0
    /\ fail_attempts = 0
    /\ conn = <<>>

\* no model call under test
SanIdle ==
    /\ is_ollama = FALSE
    /\ san_raw = <<>>
    /\ san_text = None
    /\ san_again = None
    /\ san_parsed = None
    /\ san_pc = "idle"

Init ==
    /\ task \in {FD, FM}
    /\ input \in (IF task = FD THEN FeatureDesignInputs ELSE FormationInputs)
    /\ pc = "loop"
    /\ attempt = 0
    /\ last_errors = None
    /\ last_json_error = None
    /\ prompt = <<>>
    /\ llm_json_text = None
    /\ value = None
    /\ calls = 0
    /\ outcomes = <<>>
    /\ result = NoResult
    /\ ValIdle
    /\ RunIdle
    /\ ConcIdle
    /\ MockIdle
    /\ SanIdle

\* the invocation unwinds with a panic: nothing is returned.  The outcome
\* records what the text in hand parses to.
Panic(parsed) ==
    /\ pc' = "panicked"
    /\ outcomes' = Append(outcomes,
           Outcome("panic", parsed.msg, <<>>,
                   IF parsed.ok THEN Some(parsed.v) ELSE None))
    /\ llm_json_text' = None
    /\ UNCHANGED envVars
    /\ UNCHANGED <<task, input, attempt, last_errors, last_json_error, prompt,
                   value, calls, result>>

\* return Err(e) / return Ok(x)
Return(r, outcome) ==
    /\ pc' = "returned"
    /\ result' = r
    /\ outcomes' = Append(outcomes, outcome)
    /\ llm_json_text' = None
    /\ value' = None
    /\ UNCHANGED envVars
    /\ UNCHANGED <<task, input, attempt, last_errors, last_json_error, prompt, calls>>

\* a loop that adds the new validation errors to those it already holds
ContinueAccumulating(errors, json_error, outcome) ==
    /\ pc' = "loop"
    /\ last_errors' = (IF errors.some /\ last_errors.some
                       THEN Some(last_errors.v \o errors.v)
                       ELSE errors)
    /\ last_json_error' = json_error
    /\ attempt' = attempt + 1
    /\ outcomes' = Append(outcomes, outcome)
    /\ llm_json_text' = None
    /\ value' = None
    /\ UNCHANGED envVars
    /\ UNCHANGED <<task, input, prompt, calls, result>>

\* a loop that stores the new feedback and never clears the other kind
ContinueKeeping(errors, json_error, outcome) ==
    /\ pc' = "loop"
    /\ last_errors' = (IF errors.some THEN errors ELSE last_errors)
    /\ last_json_error' = (IF json_error.some THEN json_error ELSE last_json_error)
    /\ attempt' = attempt + 1
    /\ outcomes' = Append(outcomes, outcome)
    /\ llm_json_text' = None
    /\ value' = None
    /\ UNCHANGED envVars
    /\ UNCHANGED <<task, input, prompt, calls, result>>

\* continue: the feedback is stored and the loop variable advances
Continue(errors, json_error, outcome) ==
    /\ pc' = "loop"
    /\ last_errors' = errors
    /\ last_json_error' = json_error
    /\ attempt' = attempt + 1
    /\ outcomes' = Append(outcomes, outcome)
    /\ llm_json_text' = None
    /\ value' = None
    /\ UNCHANGED envVars
    /\ UNCHANGED <<task, input, prompt, calls, result>>

\* a pipelined loop: the call of the next attempt is issued as soon as the
\* answer of this one is in, before that answer is parsed
IssueCallPipelined(t, p) ==
    /\ task = t
    /\ \/ pc = "loop" /\ attempt < max_retries /\ attempt' = attempt
       \/ pc = "received" /\ attempt + 1 < max_retries /\ attempt' = attempt + 1
    /\ prompt' = p
    /\ calls' = calls + 1
    /\ pc' = "inflight"
    /\ UNCHANGED envVars
    /\ UNCHANGED <<task, input, last_errors, last_json_error,
                   llm_json_text, value, outcomes, result>>

\* top of the loop body: the prompt is built and the model call is issued
IssueCall(t, p) ==
    /\ task = t
    /\ pc = "loop"
    /\ attempt < max_retries
    /\ prompt' = p
    /\ calls' = calls + 1
    /\ pc' = "inflight"
    /\ UNCHANGED envVars
    /\ UNCHANGED <<task, input, attempt, last_errors, last_json_error,
                   llm_json_text, value, outcomes, result>>

\* a loop that treats a failed call like a failed parse and tries again
CallFailsRetried(t) ==
    /\ task = t
    /\ pc = "inflight"
    /\ \E e \in TransportErrors :
          IF attempt = max_retries - 1
          THEN Return(Err(e), Outcome("transport", e, <<>>, None))
          ELSE Continue(None, Some(e), Outcome("transport", e, <<>>, None))

\* self.call_llm(&prompt).await? with an Err: the function returns it
CallFails(t) ==
    /\ task = t
    /\ pc = "inflight"
    /\ \E e \in TransportErrors : Return(Err(e), Outcome("transport", e, <<>>, None))

\* self.call_llm(&prompt).await? with Ok(text)
CallAnswers(t) ==
    /\ task = t
    /\ pc = "inflight"
    /\ \E text \in Texts(t) : llm_json_text' = Some(text)
    /\ pc' = "received"
    /\ UNCHANGED envVars
    /\ UNCHANGED <<task, input, attempt, last_errors, last_json_error, prompt,
                   value, calls, outcomes, result>>

\* the for loop is over: the error after the loop
LoopEnds(t) ==
    /\ task = t
    /\ pc = "loop"
    /\ attempt = max_retries
    /\ pc' = "returned"
    /\ result' = Err(OutputExhausted)
    /\ UNCHANGED envVars
    /\ UNCHANGED <<task, input, attempt, last_errors, last_json_error, prompt,
                   llm_json_text, value, calls, outcomes>>

\* match serde_json::from_str(&llm_json_text) { Ok(v) => v, Err(e) => ... }
ParseArm(parsed) ==
    IF parsed.ok
    THEN /\ value' = Some(parsed.v)
         /\ pc' = "parsed"
         /\ UNCHANGED envVars
         /\ UNCHANGED <<task, input, attempt, last_errors, last_json_error, prompt,
                        llm_json_text, calls, outcomes, result>>
    ELSE IF attempt = max_retries - 1
         THEN Return(Err(JsonExhausted(parsed.msg)),
                     Outcome("parse", parsed.msg, <<>>, None))
         ELSE Continue(None, Some(parsed.msg),
                       Outcome("parse", parsed.msg, <<>>, None))

\* --- generate_feature_design ---
fd_issue_call ==
    IssueCall(FD, build_prompt(input, feature_design_output_typedef,
                               last_errors, last_json_error))
fd_call_fails == CallFails(FD)
fd_call_answers == CallAnswers(FD)
fd_loop_ends == LoopEnds(FD)

\* the preview of the raw response, then the parse with its diagnostic line
fd_parse ==
    /\ task = FD
    /\ pc = "received"
    /\ LET text == llm_json_text.v
           parsed == from_str(text)
       IN IF attempt = 0 /\ text.len > PreviewLen /\ SlicePanics(text, PreviewLen)
          THEN Panic(parsed)
          ELSE IF ~parsed.ok /\ text.len > ParseLogLen /\ SlicePanics(text, ParseLogLen)
               THEN Panic(parsed)
               ELSE ParseArm(parsed)

\* a loop that hands out what it has when the last attempt fails validation
fd_validate_best_effort ==
    /\ task = FD
    /\ pc = "parsed"
    /\ LET checked == validate(feature_design_output_typedef, value.v)
           typed == from_value_FeatureDesignOutput(value.v)
       IN IF checked.ok \/ attempt = max_retries - 1
          THEN Return(Ok(typed.out), Outcome("ok", <<>>, <<>>, value))
          ELSE Continue(Some(checked.errors), None,
                        Outcome("validation", <<>>, checked.errors, value))

\* match validate(output_schema, &value)
fd_validate ==
    /\ task = FD
    /\ pc = "parsed"
    /\ LET checked == validate(feature_design_output_typedef, value.v)
           typed == from_value_FeatureDesignOutput(value.v)
       IN IF checked.ok
          THEN IF typed.ok
               THEN Return(Ok(typed.out), Outcome("ok", <<>>, <<>>, value))
               ELSE Return(Err(DecodeFailed), Outcome("decode", DecodeFailed, <<>>, value))
          ELSE Continue(Some(checked.errors), None,
                        Outcome("validation", <<>>, checked.errors, value))

\* --- generate_formation ---
fm_issue_call ==
    IssueCall(FM, build_formation_prompt(input, formation_output_typedef,
                                         last_errors, last_json_error))
fm_call_fails == CallFails(FM)
fm_call_answers == CallAnswers(FM)
fm_loop_ends == LoopEnds(FM)

fm_parse ==
    /\ task = FM
    /\ pc = "received"
    /\ ParseArm(from_str(llm_json_text.v))

\* the error synthesized when the number of coordinates is not unit_count
CountMismatch(unit_count, len) ==
    TypeMismatch(<<"$", ".", "coordinates">>,
                 <<"array with exactly ", ToString(unit_count), " items">>,
                 <<"array with ", ToString(len), " items">>)

\* a loop without the check of the number of coordinates
fm_validate_uncounted ==
    /\ task = FM
    /\ pc = "parsed"
    /\ LET checked == validate(formation_output_typedef, value.v)
           typed == from_value_FormationOutput(value.v)
       IN IF checked.ok
          THEN Return(Ok(typed.out), Outcome("ok", <<>>, <<>>, value))
          ELSE Continue(Some(checked.errors), None,
                        Outcome("validation", <<>>, checked.errors, value))

\* match validate(output_schema, &value), with the count of coordinates
fm_validate ==
    /\ task = FM
    /\ pc = "parsed"
    /\ LET checked == validate(formation_output_typedef, value.v)
           typed == from_value_FormationOutput(value.v)
       IN IF checked.ok
          THEN IF ~typed.ok
               THEN Return(Err(DecodeFailed), Outcome("decode", DecodeFailed, <<>>, value))
               ELSE IF Len(typed.out.coordinates) # input.unit_count
                    THEN LET errors ==
                               <<CountMismatch(input.unit_count,
                                               Len(typed.out.coordinates))>>
                         IN Continue(Some(errors), None,
                                     Outcome("count", <<>>, errors, value))
                    ELSE Return(Ok(typed.out), Outcome("ok", <<>>, <<>>, value))
          ELSE Continue(Some(checked.errors), None,
                        Outcome("validation", <<>>, checked.errors, value))

Next ==
    \/ fd_issue_call
    \/ fd_call_fails
    \/ fd_call_answers
    \/ fd_parse
    \/ fd_validate
    \/ fd_loop_ends
    \/ fm_issue_call
    \/ fm_call_fails
    \/ fm_call_answers
    \/ fm_parse
    \/ fm_validate
    \/ fm_loop_ends

Spec == Init /\ [][Next]_vars

(***************************************************************************)
(* codec.rs: MsgPackCodec.  rmp_serde::to_vec_named writes a struct as a   *)
(* map from field names to values; the bytes are modelled by the           *)
(* MessagePack value they spell, or as bytes that spell none.              *)
(***************************************************************************)
MpNil == [t |-> "nil", s |-> "", n |-> 0, items |-> <<>>, m |-> <<>>]
MpStr(x) == [t |-> "str", s |-> x, n |-> 0, items |-> <<>>, m |-> <<>>]
MpInt(k) == [t |-> "int", s |-> "", n |-> k, items |-> <<>>, m |-> <<>>]
MpF64(x) == [t |-> "f64", s |-> x, n |-> 0, items |-> <<>>, m |-> <<>>]
MpArr(xs) == [t |-> "array", s |-> "", n |-> 0, items |-> xs, m |-> <<>>]
MpMap(map) == [t |-> "map", s |-> "", n |-> 0, items |-> <<>>, m |-> map]

Bytes(tree) == [wellformed |-> TRUE, tree |-> tree]
\* bytes that end in the middle of a value
Truncated == [wellformed |-> FALSE, tree |-> MpNil]

MpStrs(xs) == MpArr([i \in 1..Len(xs) |-> MpStr(xs[i])])

\* MsgPackCodec::encode of the records of shape.rs
encode_FeatureDesignInput(inp) ==
    Bytes(MpMap([repo_summary |-> MpStr(inp.repo_summary),
                 constraints |-> MpStrs(inp.constraints)]))
encode_FormationInput(inp) ==
    Bytes(MpMap([formation_description |-> MpStr(inp.formation_description),
                 unit_count |-> MpInt(inp.unit_count)]))
encode_FeatureDesignOutput(out) ==
    Bytes(MpMap([name |-> MpStr(out.name),
                 rationale |-> MpStr(out.rationale),
                 components |-> MpArr([i \in 1..Len(out.components) |->
                     MpMap([id |-> MpStr(out.components[i].id),
                            responsibility |-> MpStr(out.components[i].responsibility),
                            api |-> MpStr(out.components[i].api)])]),
                 risks |-> MpStrs(out.risks)]))
encode_FormationOutput(out) ==
    Bytes(MpMap([coordinates |-> MpArr([i \in 1..Len(out.coordinates) |->
                     MpMap([x |-> MpF64(out.coordinates[i].x),
                            y |-> MpF64(out.coordinates[i].y)])])]))

\* Result<T, anyhow::Error> of MsgPackCodec::decode
CodecOk(x) == [ok |-> TRUE, v |-> x, msg |-> <<>>]
CodecErr(msg) == [ok |-> FALSE, v |-> <<>>, msg |-> msg]

MpIsStrs(v) == v.t = "array" /\ \A i \in 1..Len(v.items) : v.items[i].t = "str"
MpHas(v, names) == v.t = "map" /\ names \subseteq DOMAIN v.m

\* rmp_serde::from_slice::<FeatureDesignInput>: the named form of the struct
\* or its positional form, a String from a str, a Vec<String> from an array
decode_FeatureDesignInput(bytes) ==
    LET v == bytes.tree
    IN IF ~bytes.wellformed THEN CodecErr(<<"IO error while reading marker">>)
       ELSE IF /\ MpHas(v, {"repo_summary", "constraints"})
               /\ v.m.repo_summary.t = "str"
               /\ MpIsStrs(v.m.constraints)
       THEN CodecOk([repo_summary |-> v.m.repo_summary.s,
                     constraints |-> [i \in 1..Len(v.m.constraints.items) |->
                                         v.m.constraints.items[i].s]])
       ELSE IF /\ v.t = "array"
               /\ Len(v.items) = 2
               /\ v.items[1].t = "str"
               /\ MpIsStrs(v.items[2])
       THEN CodecOk([repo_summary |-> v.items[1].s,
                     constraints |-> [i \in 1..Len(v.items[2].items) |->
                                         v.items[2].items[i].s]])
       ELSE CodecErr(<<"invalid type or missing field">>)

\* rmp_serde::from_slice::<FormationInput>: unit_count is a usize
decode_FormationInput(bytes) ==
    LET v == bytes.tree
    IN IF ~bytes.wellformed THEN CodecErr(<<"IO error while reading marker">>)
       ELSE IF /\ MpHas(v, {"formation_description", "unit_count"})
               /\ v.m.formation_description.t = "str"
               /\ v.m.unit_count.t = "int"
               /\ v.m.unit_count.n >= 0
       THEN CodecOk([formation_description |-> v.m.formation_description.s,
                     unit_count |-> v.m.unit_count.n])
       ELSE IF /\ v.t = "array"
               /\ Len(v.items) = 2
               /\ v.items[1].t = "str"
               /\ v.items[2].t = "int"
               /\ v.items[2].n >= 0
       THEN CodecOk([formation_description |-> v.items[1].s,
                     unit_count |-> v.items[2].n])
       ELSE CodecErr(<<"invalid type or missing field">>)

decode_input(shape_id, bytes) ==
    IF shape_id = FD THEN decode_FeatureDesignInput(bytes)
    ELSE decode_FormationInput(bytes)

encode_output(shape_id, out) ==
    IF shape_id = FD THEN encode_FeatureDesignOutput(out)
    ELSE encode_FormationOutput(out)

\* rmp_serde::from_slice::<FeatureDesignOutput> / ::<FormationOutput>
decode_FeatureDesignOutput(bytes) ==
    LET v == bytes.tree
    IN IF /\ bytes.wellformed
          /\ MpHas(v, {"name", "rationale", "components", "risks"})
          /\ v.m.name.t = "str"
          /\ v.m.rationale.t = "str"
          /\ v.m.components.t = "array"
          /\ \A i \in 1..Len(v.m.components.items) :
                /\ MpHas(v.m.components.items[i], {"id", "responsibility", "api"})
                /\ \A f \in {"id", "responsibility", "api"} :
                      v.m.components.items[i].m[f].t = "str"
          /\ MpIsStrs(v.m.risks)
       THEN CodecOk([name |-> v.m.name.s,
                     rationale |-> v.m.rationale.s,
                     components |-> [i \in 1..Len(v.m.components.items) |->
                         [id |-> v.m.components.items[i].m.id.s,
                          responsibility |-> v.m.components.items[i].m.responsibility.s,
                          api |-> v.m.components.items[i].m.api.s]],
                     risks |-> [i \in 1..Len(v.m.risks.items) |-> v.m.risks.items[i].s]])
       ELSE CodecErr(<<"invalid type or missing field">>)

decode_FormationOutput(bytes) ==
    LET v == bytes.tree
    IN IF /\ bytes.wellformed
          /\ MpHas(v, {"coordinates"})
          /\ v.m.coordinates.t = "array"
          /\ \A i \in 1..Len(v.m.coordinates.items) :
                /\ MpHas(v.m.coordinates.items[i], {"x", "y"})
                /\ \A f \in {"x", "y"} : v.m.coordinates.items[i].m[f].t = "f64"
       THEN CodecOk([coordinates |-> [i \in 1..Len(v.m.coordinates.items) |->
                         [x |-> v.m.coordinates.items[i].m.x.s,
                          y |-> v.m.coordinates.items[i].m.y.s]]])
       ELSE CodecErr(<<"invalid type or missing field">>)

decode_output(shape_id, bytes) ==
    IF shape_id = FD THEN decode_FeatureDesignOutput(bytes)
    ELSE decode_FormationOutput(bytes)

(***************************************************************************)
(* main.rs: ShapeRunnerService::run, and client.rs: the caller.            *)
(***************************************************************************)
NoResponse == [kind |-> "none", code |-> "", message |-> <<>>, body |-> <<>>]
\* Err(Status::not_found(..)) and the like
Status(code, message) ==
    [kind |-> "Status", code |-> code, message |-> message, body |-> <<>>]
\* Ok(Response::new(RunResponse { output, ok: true, error: String::new() }))
RunResponse(output) ==
    [kind |-> "Ok", code |-> "", message |-> <<>>,
     body |-> [output |-> output, ok |-> TRUE, error |-> <<>>]]

\* the requests a caller sends: each task with its own encoded input, with
\* the input of the other task, with an input the struct does not decode
\* from, with broken bytes; and identifiers the service does not know
Payloads ==
    {encode_FeatureDesignInput(i) : i \in FeatureDesignInputs}
    \cup {encode_FormationInput(i) : i \in FormationInputs}
    \cup {Bytes(MpMap([formation_description |-> MpStr("circle"),
                       unit_count |-> MpInt(0 - 1)])),
          Bytes(MpArr(<<MpStr("x"), MpStrs(<<"no unsafe">>)>>)),
          Bytes(MpMap([repo_summary |-> MpInt(7), constraints |-> MpStrs(<<>>)])),
          Truncated}

ShapeIds == {FD, FM, "featuredesign", ""}

Requests == {[shape_id |-> id, input |-> b] : id \in ShapeIds, b \in Payloads}

InitRun ==
    /\ OrchIdle
    /\ ValIdle
    /\ SanIdle
    /\ ConcIdle
    /\ MockIdle
    /\ request \in Requests
    /\ rpc = "received"
    /\ response = NoResponse
    /\ \E t \in BOOLEAN : client = [pc |-> "waiting", timeout |-> t, result |-> NoResult]

\* the reply of run: the dispatcher is done with the request
Reply(r) ==
    /\ response' = r
    /\ rpc' = "replied"
    /\ UNCHANGED <<request, client>>
    /\ UNCHANGED valVars
    /\ UNCHANGED <<sanVars, concVars, mockVars>>

\* _ => Err(Status::not_found(format!("unknown shape_id: {}", inner.shape_id)))
run_unknown_shape ==
    /\ rpc = "received"
    /\ request.shape_id \notin {FD, FM}
    /\ Reply(Status("NotFound", <<"unknown shape_id: ", request.shape_id>>))
    /\ UNCHANGED orchVars

\* a dispatcher that goes on with an empty input when the payload does not
\* decode
run_decode_fails_defaulted ==
    /\ rpc = "received"
    /\ request.shape_id \in {FD, FM}
    /\ ~decode_input(request.shape_id, request.input).ok
    /\ task' = request.shape_id
    /\ input' = IF request.shape_id = FD
                THEN [repo_summary |-> "", constraints |-> <<>>]
                ELSE [formation_description |-> "", unit_count |-> 0]
    /\ pc' = "loop"
    /\ rpc' = "awaiting"
    /\ UNCHANGED <<attempt, last_errors, last_json_error, prompt, llm_json_text,
                   value, calls, outcomes, result>>
    /\ UNCHANGED <<request, response, client>>
    /\ UNCHANGED valVars
    /\ UNCHANGED <<sanVars, concVars, mockVars>>

\* self.codec.decode(&inner.input).map_err(Status::invalid_argument(..))?
run_decode_fails ==
    /\ rpc = "received"
    /\ request.shape_id \in {FD, FM}
    /\ LET decoded == decode_input(request.shape_id, request.input)
       IN /\ ~decoded.ok
          /\ Reply(Status("InvalidArgument", <<"decode input failed: ">> \o decoded.msg))
    /\ UNCHANGED orchVars

\* self.llm.generate_feature_design(&input, ..) / generate_formation(&input, ..)
\* is entered with the decoded input
run_generate ==
    /\ rpc = "received"
    /\ request.shape_id \in {FD, FM}
    /\ LET decoded == decode_input(request.shape_id, request.input)
       IN /\ decoded.ok
          /\ task' = request.shape_id
          /\ input' = decoded.v
    /\ pc' = "loop"
    /\ rpc' = "awaiting"
    /\ UNCHANGED <<attempt, last_errors, last_json_error, prompt, llm_json_text,
                   value, calls, outcomes, result>>
    /\ UNCHANGED <<request, response, client>>
    /\ UNCHANGED valVars
    /\ UNCHANGED <<sanVars, concVars, mockVars>>

\* a dispatcher that reports the error of the loop inside a response
run_reply_in_band ==
    /\ rpc = "awaiting"
    /\ pc = "returned"
    /\ IF result.kind = "Err"
       THEN Reply([kind |-> "Ok", code |-> "", message |-> <<>>,
                   body |-> [output |-> Truncated, ok |-> FALSE, error |-> result.err]])
       ELSE Reply(RunResponse(encode_output(request.shape_id, result.out)))
    /\ UNCHANGED orchVars

\* .await.map_err(|e| Status::internal(format!("LLM error: {e}")))?, then the
\* output is encoded (to_vec_named into a Vec does not fail for these
\* records) and sent with ok: true
run_reply ==
    /\ rpc = "awaiting"
    /\ pc = "returned"
    /\ IF result.kind = "Err"
       THEN Reply(Status("Internal", <<"LLM error: ">> \o result.err))
       ELSE Reply(RunResponse(encode_output(request.shape_id, result.out)))
    /\ UNCHANGED orchVars

\* the handler unwinds with the panic of the function it awaits: run
\* produces neither a response nor a Status
run_unwinds ==
    /\ rpc = "awaiting"
    /\ pc = "panicked"
    /\ rpc' = "aborted"
    /\ UNCHANGED <<request, response, client>>
    /\ UNCHANGED valVars
    /\ UNCHANGED <<sanVars, concVars, mockVars>>
    /\ UNCHANGED orchVars

\* the caller's end of the call: what run_shape returns
ClientDone(r) ==
    /\ client' = [client EXCEPT !.pc = "done", !.result = r]
    /\ UNCHANGED <<request, rpc, response>>
    /\ UNCHANGED valVars
    /\ UNCHANGED <<sanVars, concVars, mockVars>>
    /\ UNCHANGED orchVars

\* self.client.run(request).await ... through Ok(result)
client_receives ==
    /\ client.pc = "waiting"
    /\ rpc \in {"replied", "aborted"}
    /\ IF rpc = "aborted"
       THEN ClientDone(Err(<<"gRPC call failed: ", "stream closed">>))
       ELSE IF response.kind = "Status"
       THEN ClientDone(Err(<<"gRPC call failed: ", response.code, ": ">>
                           \o response.message))
       ELSE IF ~response.body.ok
       THEN ClientDone(Err(<<"Shape execution failed: ">> \o response.body.error))
       ELSE LET decoded == decode_output(request.shape_id, response.body.output)
            IN IF decoded.ok THEN ClientDone(Ok(decoded.v))
               ELSE ClientDone(Err(<<"Failed to decode output: ">> \o decoded.msg))

\* tokio::time::timeout(timeout, self.client.run(request)) elapses before the
\* response is there: the caller's future of the call is dropped
client_times_out ==
    /\ client.pc = "waiting"
    /\ client.timeout
    /\ client' = [client EXCEPT !.pc = "timed_out",
                                !.result = Err(<<"Request timed out after ", "30s">>)]
    /\ UNCHANGED <<request, rpc, response>>
    /\ UNCHANGED valVars
    /\ UNCHANGED <<sanVars, concVars, mockVars>>
    /\ UNCHANGED orchVars

\* the reset of the abandoned call reaches the server while the handler is
\* suspended in call_llm: the handler's future is dropped there.  Nothing in
\* the service or in the loop ends the invocation before that.
run_dropped ==
    /\ rpc = "awaiting"
    /\ client.pc = "timed_out"
    /\ pc = "inflight"
    /\ rpc' = "dropped"
    /\ pc' = "dropped"
    /\ UNCHANGED <<task, input, attempt, last_errors, last_json_error, prompt,
                   llm_json_text, value, calls, outcomes, result>>
    /\ UNCHANGED <<request, response, client>>
    /\ UNCHANGED valVars
    /\ UNCHANGED <<sanVars, concVars, mockVars>>

NextRun ==
    \/ run_unknown_shape
    \/ run_decode_fails
    \/ run_generate
    \/ run_reply
    \/ run_unwinds
    \/ run_dropped
    \/ client_receives
    \/ client_times_out
    \/ fd_issue_call
    \/ fd_call_fails
    \/ fd_call_answers
    \/ fd_parse
    \/ fd_validate
    \/ fd_loop_ends
    \/ fm_issue_call
    \/ fm_call_fails
    \/ fm_call_answers
    \/ fm_parse
    \/ fm_validate
    \/ fm_loop_ends

SpecRun == InitRun /\ [][NextRun]_vars

(***************************************************************************)
(* llm.rs: call_llm with its two Model Callers, and the parse that         *)
(* follows it in the loop.                                                 *)
(***************************************************************************)
InitCall ==
    /\ OrchIdle
    /\ ValIdle
    /\ RunIdle
    /\ ConcIdle
    /\ MockIdle
    /\ is_ollama \in BOOLEAN
    /\ san_raw \in RawTexts
    /\ san_text = None
    /\ san_again = None
    /\ san_parsed = None
    /\ san_pc = "call"

\* Ok(String) of call_llm
CallReturns(s) ==
    /\ san_text' = Some(s)
    /\ san_pc' = "returned"
    /\ UNCHANGED <<is_ollama, san_raw, san_again, san_parsed>>
    /\ UNCHANGED <<orchVars, valVars, runVars, concVars, mockVars>>

\* let cleaned = clean_json_response(&body.response); Ok(cleaned)
call_ollama ==
    /\ san_pc = "call"
    /\ is_ollama
    /\ CallReturns(clean_json_response(san_raw))

\* Ok(body.output)
call_mock_server ==
    /\ san_pc = "call"
    /\ ~is_ollama
    /\ CallReturns(san_raw)

\* serde_json::from_str(&llm_json_text)
parse_response ==
    /\ san_pc = "returned"
    /\ san_parsed' = Some(from_str_chars(san_text.v))
    /\ san_pc' = "parsed"
    /\ UNCHANGED <<is_ollama, san_raw, san_text, san_again>>
    /\ UNCHANGED <<orchVars, valVars, runVars, concVars, mockVars>>

NextCall ==
    \/ call_ollama
    \/ call_mock_server
    \/ parse_response

SpecCall == InitCall /\ [][NextCall]_vars

(***************************************************************************)
(* clean_json_response as a pure function: applied to a text, and to its   *)
(* own output.                                                             *)
(***************************************************************************)
InitSanitize ==
    /\ OrchIdle
    /\ ValIdle
    /\ RunIdle
    /\ ConcIdle
    /\ MockIdle
    /\ is_ollama = TRUE
    /\ san_raw \in RawTexts
    /\ san_text = None
    /\ san_again = None
    /\ san_parsed = None
    /\ san_pc = "raw"

Sanitize ==
    /\ san_pc = "raw"
    /\ san_text' = Some(clean_json_response(san_raw))
    /\ san_pc' = "once"
    /\ UNCHANGED <<is_ollama, san_raw, san_again, san_parsed>>
    /\ UNCHANGED <<orchVars, valVars, runVars, concVars, mockVars>>

SanitizeAgain ==
    /\ san_pc = "once"
    /\ san_again' = Some(clean_json_response(san_text.v))
    /\ san_pc' = "twice"
    /\ UNCHANGED <<is_ollama, san_raw, san_text, san_parsed>>
    /\ UNCHANGED <<orchVars, valVars, runVars, concVars, mockVars>>

NextSanitize ==
    \/ Sanitize
    \/ SanitizeAgain

SpecSanitize == InitSanitize /\ [][NextSanitize]_vars

(***************************************************************************)
(* main.rs, llm.rs: two inbound calls served at once.  Each call of run is *)
(* a future of its own, and attempt, last_errors and last_json_error are   *)
(* locals of generate_feature_design / generate_formation in that future;  *)
(* the service holds the codec and the LlmClient, which no call writes.    *)
(* The variables of the retry loop are the locals of the invocation that   *)
(* takes the next step, and parked holds the locals of the other one.      *)
(***************************************************************************)
\* the locals of the invocation that takes the next step
Running ==
    [task |-> task, input |-> input, pc |-> pc, attempt |-> attempt,
     last_errors |-> last_errors, last_json_error |-> last_json_error,
     prompt |-> prompt, llm_json_text |-> llm_json_text, value |-> value,
     calls |-> calls, outcomes |-> outcomes, result |-> result]

\* the locals at the entry of the loop
Fresh(t, inp) ==
    [IdleLocals EXCEPT !.task = t, !.input = inp, !.pc = "loop"]

\* the inputs of the two calls
ConcInputs(t) ==
    IF t = FD THEN FeatureDesignInputs
    ELSE {[formation_description |-> "circle", unit_count |-> n] : n \in {1, 2}}

\* the answers of the model endpoint to the two calls: a document that
\* passes, one that fails validation (for a formation: for one of the two
\* inputs), and text that is not JSON
ConcTexts(t) ==
    LET short == [len |-> 40, inside |-> {}]
        bodies ==
            IF t = FD
            THEN {JsonBody(FeatureDoc(JStr("cache"), <<GoodComponent>>,
                                      <<JStr("stale reads")>>)),
                  JsonBody(FeatureDoc(JStr("cache"), <<BadComponent>>,
                                      <<JStr("stale reads")>>)),
                  DefectBody("prose")}
            ELSE {JsonBody(JObj([coordinates |-> JArr(Coords(1))])),
                  JsonBody(JObj([coordinates |-> JArr(Coords(2))])),
                  DefectBody("truncated")}
    IN {TextOf(b, short) : b \in bodies}

InitConc ==
    /\ MockIdle
    /\ task \in {FD, FM}
    /\ input \in ConcInputs(task)
    /\ pc = "loop"
    /\ attempt = 0
    /\ last_errors = None
    /\ last_json_error = None
    /\ prompt = <<>>
    /\ llm_json_text = None
    /\ value = None
    /\ calls = 0
    /\ outcomes = <<>>
    /\ result = NoResult
    /\ \E t \in {FD, FM} : \E inp \in ConcInputs(t) : parked = Fresh(t, inp)
    /\ ValIdle
    /\ RunIdle
    /\ SanIdle

\* a scheduler that keeps the feedback of the loop in one place for every
\* call, as fields of the service would be
resume_other_shared_feedback ==
    /\ parked.task # "none"
    /\ parked' = Running
    /\ task' = parked.task
    /\ input' = parked.input
    /\ pc' = parked.pc
    /\ attempt' = parked.attempt
    /\ prompt' = parked.prompt
    /\ llm_json_text' = parked.llm_json_text
    /\ value' = parked.value
    /\ calls' = parked.calls
    /\ outcomes' = parked.outcomes
    /\ result' = parked.result
    /\ UNCHANGED <<last_errors, last_json_error>>
    /\ UNCHANGED <<valVars, runVars, sanVars, mockVars>>

\* the runtime goes on with the task of the other call: that task works on
\* its own locals
resume_other ==
    /\ parked.task # "none"
    /\ parked' = Running
    /\ task' = parked.task
    /\ input' = parked.input
    /\ pc' = parked.pc
    /\ attempt' = parked.attempt
    /\ last_errors' = parked.last_errors
    /\ last_json_error' = parked.last_json_error
    /\ prompt' = parked.prompt
    /\ llm_json_text' = parked.llm_json_text
    /\ value' = parked.value
    /\ calls' = parked.calls
    /\ outcomes' = parked.outcomes
    /\ result' = parked.result
    /\ UNCHANGED <<valVars, runVars, sanVars, mockVars>>

NextConc ==
    \/ resume_other
    \/ fd_issue_call
    \/ fd_call_fails
    \/ fd_call_answers /\ llm_json_text'.v \in ConcTexts(FD)
    \/ fd_parse
    \/ fd_validate
    \/ fd_loop_ends
    \/ fm_issue_call
    \/ fm_call_fails
    \/ fm_call_answers /\ llm_json_text'.v \in ConcTexts(FM)
    \/ fm_parse
    \/ fm_validate
    \/ fm_loop_ends

SpecConc == InitConc /\ [][NextConc]_vars

(***************************************************************************)
(* bin/mock-llm-server.rs: the mock model server.  main accepts            *)
(* connections and spawns one task per connection; every task gets a clone *)
(* of AppState, whose attempt_count is one atomic counter behind an Arc.   *)
(* The tasks run on a multi-threaded runtime, so between two connections   *)
(* every order of their steps is possible; the only step on shared state   *)
(* is the fetch_add.  A request is what the handler looks at: whether      *)
(* bytes were read, whether they hold POST and /llm, the body (as a text   *)
(* with its length and the offsets inside a multi-byte character), whether *)
(* the body parses as an LlmRequest, and the prompt.                       *)
(***************************************************************************)
\* &body[..body.len().min(100)]
MockBodyLogLen == 100
\* &body[..body.len().min(200)] and &req.prompt[..req.prompt.len().min(200)]
MockLogLen == 200

Ascii(len) == [len |-> len, inside |-> {}]
Across(len, k) == [len |-> len, inside |-> {k}]

MockRequest(read, post_llm, body, json, req_prompt) ==
    [read |-> read, post_llm |-> post_llm, body |-> body, json |-> json,
     prompt |-> req_prompt]

\* no bytes; a GET; bodies that are no LlmRequest, short and with a
\* multi-byte character across byte 200; a body with one across byte 100;
\* LlmRequests with a short prompt, a long ASCII prompt and a prompt with a
\* multi-byte character across byte 200
MockRequests ==
    {MockRequest(FALSE, FALSE, Ascii(0), FALSE, Ascii(0)),
     MockRequest(TRUE, FALSE, Ascii(0), FALSE, Ascii(0)),
     MockRequest(TRUE, TRUE, Ascii(12), FALSE, Ascii(0)),
     MockRequest(TRUE, TRUE, Across(260, 200), FALSE, Ascii(0)),
     MockRequest(TRUE, TRUE, Across(300, 100), TRUE, Ascii(260)),
     MockRequest(TRUE, TRUE, Ascii(40), TRUE, Ascii(20)),
     MockRequest(TRUE, TRUE, Ascii(700), TRUE, Ascii(640)),
     MockRequest(TRUE, TRUE, Across(300, 230), TRUE, Across(260, 200))}

\* {"invalid": "json", missing_fields: true}
InvalidOutput == "invalid json"
\* the feature design document of the server
ValidOutput == "valid document"

NoReply == [status |-> 0, output |-> ""]
HttpReply(status, output) == [status |-> status, output |-> output]

\* where a connection's task ends: it wrote a reply (or none, on an empty
\* read) and shut the stream down, or it panicked and the stream is dropped
Closed(c, reply) == [c EXCEPT !.pc = "closed", !.reply = reply]
Panicked(c) == [c EXCEPT !.pc = "panicked"]

InitMock ==
    /\ OrchIdle
    /\ ValIdle
    /\ RunIdle
    /\ SanIdle
    /\ ConcIdle
    /\ attempt_count = 0
    /\ fail_attempts \in 0..MaxFailAttempts
    /\ conn = <<>>

\* listener.accept() and tokio::spawn(handle_connection(stream, state))
accept(req) ==
    /\ Len(conn) < MaxConns
    /\ conn' = Append(conn, [request |-> req, pc |-> "accepted", attempt |-> 0,
                             reply |-> NoReply])
    /\ UNCHANGED <<attempt_count, fail_attempts>>
    /\ UNCHANGED <<orchVars, valVars, runVars, sanVars, concVars>>

\* handle_connection from stream.read to serde_json::from_str(body)
handle_connection_read(c) ==
    /\ conn[c].pc = "accepted"
    /\ LET req == conn[c].request
       IN conn' = [conn EXCEPT ![c] =
              IF ~req.read THEN Closed(@, NoReply)
              ELSE IF ~req.post_llm THEN Closed(@, HttpReply(404, ""))
              ELSE IF SlicePanics(req.body, MockBodyLogLen) THEN Panicked(@)
              ELSE IF ~req.json
                   THEN IF SlicePanics(req.body, MockLogLen) THEN Panicked(@)
                        ELSE Closed(@, HttpReply(400, "error"))
              ELSE [@ EXCEPT !.pc = "parsed"]]
    /\ UNCHANGED <<attempt_count, fail_attempts>>
    /\ UNCHANGED <<orchVars, valVars, runVars, sanVars, concVars>>

\* let attempt = state.attempt_count.fetch_add(1, SeqCst) + 1
handle_connection_count(c) ==
    /\ conn[c].pc = "parsed"
    /\ attempt_count' = attempt_count + 1
    /\ conn' = [conn EXCEPT ![c] = [@ EXCEPT !.pc = "counted",
                                             !.attempt = attempt_count + 1]]
    /\ UNCHANGED fail_attempts
    /\ UNCHANGED <<orchVars, valVars, runVars, sanVars, concVars>>

\* the prompt preview, the choice of the output and the 200 response
handle_connection_respond(c) ==
    /\ conn[c].pc = "counted"
    /\ conn' = [conn EXCEPT ![c] =
           IF SlicePanics(@.request.prompt, MockLogLen) THEN Panicked(@)
           ELSE IF @.attempt <= fail_attempts
                THEN Closed(@, HttpReply(200, InvalidOutput))
                ELSE Closed(@, HttpReply(200, ValidOutput))]
    /\ UNCHANGED <<attempt_count, fail_attempts>>
    /\ UNCHANGED <<orchVars, valVars, runVars, sanVars, concVars>>

NextMock ==
    \/ \E req \in MockRequests : accept(req)
    \/ \E c \in 1..Len(conn) : handle_connection_read(c)
    \/ \E c \in 1..Len(conn) : handle_connection_count(c)
    \/ \E c \in 1..Len(conn) : handle_connection_respond(c)

SpecMock == InitMock /\ [][NextMock]_vars

(***************************************************************************)
(* validate as a pure function: one call on a generated schema and value.  *)
(***************************************************************************)
\* the (schema, value) pairs validate is called with: every generated value
\* of every test schema, and the feature design documents of the model
ValidateSchemas == TestSchemas \cup {feature_design_output_typedef}

\* formation documents with three coordinates, the first or the last two of
\* them defective
ThreeCoordinates ==
    {JObj([coordinates |-> JArr(<<Coord("1", "2"), BadCoord, BadCoord>>)]),
     JObj([coordinates |-> JArr(<<JNull, Coord("1", "2"), Coord("3", "4")>>)]),
     JObj([coordinates |-> JArr(<<Coord("1", "2"), Coord("3", "4"), BadCoord>>)])}

ValidateValues(ty) ==
    IF ty = feature_design_output_typedef THEN FeatureDesignValues
    ELSE IF ty = formation_output_typedef THEN Gen(ty, TRUE) \cup ThreeCoordinates
    ELSE Gen(ty, TRUE)

InitValidate ==
    /\ OrchIdle
    /\ RunIdle
    /\ ConcIdle
    /\ MockIdle
    /\ SanIdle
    /\ vty \in ValidateSchemas
    /\ vvalue \in ValidateValues(vty)
    /\ vresult = VOk
    /\ vpc = "call"

\* pub fn validate(ty, value)
ValidateCall ==
    /\ vpc = "call"
    /\ vresult' = validate(vty, vvalue)
    /\ vpc' = "ret"
    /\ UNCHANGED <<vty, vvalue>>
    /\ UNCHANGED orchVars
    /\ UNCHANGED runVars
    /\ UNCHANGED <<sanVars, concVars, mockVars>>

NextValidate == ValidateCall

SpecValidate == InitValidate /\ [][NextValidate]_vars

(***************************************************************************)
(* The violations of a value against a schema, stated position by          *)
(* position as a set: what a complete validation has to report.            *)
(***************************************************************************)
ExpectedKind(ty) ==
    CASE ty.k \in {"Text", "Markdown"} -> "string"
      [] ty.k = "Number" -> "number"
      [] ty.k = "Bool" -> "boolean"
      [] ty.k = "List" -> "array"
      [] ty.k = "Object" -> "object"

RECURSIVE Violations(_, _, _)
Violations(ty, v, path) ==
    IF v.t # ExpectedKind(ty)
    THEN {TypeMismatch(path, <<ExpectedKind(ty)>>, <<v.t>>)}
    ELSE CASE ty.k = "List" ->
                UNION {Violations(ty.inner[1], v.items[i], IndexPath(path, i - 1))
                          : i \in 1..Len(v.items)}
           [] ty.k = "Object" ->
                UNION {IF ty.fields[i].name \in DOMAIN v.m
                       THEN Violations(ty.fields[i].ty, v.m[ty.fields[i].name],
                                       FieldPath(path, ty.fields[i].name))
                       ELSE {MissingField(FieldPath(path, ty.fields[i].name))}
                          : i \in 1..Len(ty.fields)}
           [] OTHER -> {}

SeqToSet(q) == {q[i] : i \in 1..Len(q)}

\* declared fields of an Object schema that the object value does not have
AbsentFields(ty, v) ==
    {i \in 1..Len(ty.fields) : ty.fields[i].name \notin DOMAIN v.m}

\* C10: one call of validate returns every violation of the value, each
\* once: the errors are exactly the violations found position by position,
\* the call is Ok only when there is none, and an object that lacks k
\* declared fields gets k MissingField errors at the root.
C10_ValidateComplete ==
    vpc = "ret" =>
        /\ SeqToSet(vresult.errors) = Violations(vty, vvalue, RootPath)
        /\ Len(vresult.errors) = Cardinality(Violations(vty, vvalue, RootPath))
        /\ vresult.ok <=> Violations(vty, vvalue, RootPath) = {}
        /\ (vty.k = "Object" /\ vvalue.t = "object") =>
              Cardinality({i \in 1..Len(vresult.errors) :
                              /\ vresult.errors[i].kind = "MissingField"
                              /\ Len(vresult.errors[i].path) = 3})
                 = Cardinality(AbsentFields(vty, vvalue))

\* an object without two declared fields and with a wrong kind in a third
\* one has been validated: two MissingField and a TypeMismatch together
C10_Witness ==
    /\ vpc = "ret"
    /\ vty.k = "Object"
    /\ vvalue.t = "object"
    /\ Cardinality(AbsentFields(vty, vvalue)) = 2
    /\ Len(vresult.errors) = 3
    /\ \E i \in 1..3 : vresult.errors[i].kind = "TypeMismatch"

(***************************************************************************)
(* The lenient superset policy: a value with the undeclared keys of every  *)
(* object removed, and with undeclared keys added to every object.         *)
(***************************************************************************)
DeclaredNames(ty) == {ty.fields[i].name : i \in 1..Len(ty.fields)}
FieldTy(ty, name) == ty.fields[CHOOSE i \in 1..Len(ty.fields) : ty.fields[i].name = name].ty

RECURSIVE Stripped(_, _)
Stripped(ty, v) ==
    CASE ty.k = "Object" /\ v.t = "object" ->
            JObj([key \in (DOMAIN v.m) \cap DeclaredNames(ty) |->
                     Stripped(FieldTy(ty, key), v.m[key])])
      [] ty.k = "List" /\ v.t = "array" ->
            JArr([i \in 1..Len(v.items) |-> Stripped(ty.inner[1], v.items[i])])
      [] OTHER -> v

UndeclaredKeys == {"_note", "unknown"}

RECURSIVE Stuffed(_, _)
Stuffed(ty, v) ==
    CASE ty.k = "Object" /\ v.t = "object" ->
            JObj([key \in (DOMAIN v.m) \cup UndeclaredKeys |->
                     IF key = "_note" THEN JStr("n/a")
                     ELSE IF key = "unknown" THEN JObj([x |-> JNull])
                     ELSE IF key \in DeclaredNames(ty)
                          THEN Stuffed(FieldTy(ty, key), v.m[key])
                          ELSE v.m[key]])
      [] ty.k = "List" /\ v.t = "array" ->
            JArr([i \in 1..Len(v.items) |-> Stuffed(ty.inner[1], v.items[i])])
      [] OTHER -> v

\* the value has an object with an undeclared key at an Object schema below
\* the root
RECURSIVE HasNestedExtra(_, _, _)
HasNestedExtra(ty, v, depth) ==
    CASE ty.k = "Object" /\ v.t = "object" ->
            \/ depth > 0 /\ (DOMAIN v.m) \ DeclaredNames(ty) # {}
            \/ \E key \in (DOMAIN v.m) \cap DeclaredNames(ty) :
                   HasNestedExtra(FieldTy(ty, key), v.m[key], depth + 1)
      [] ty.k = "List" /\ v.t = "array" ->
            \E i \in 1..Len(v.items) : HasNestedExtra(ty.inner[1], v.items[i], depth + 1)
      [] OTHER -> FALSE

\* C11: keys that the schema does not declare never change the result of
\* validate: the result for a value is the result for the same value
\* without its undeclared keys, and the result for the same value with
\* more undeclared keys in every object, at any depth.
C11_ExtraKeysIgnored ==
    vpc = "ret" =>
        /\ vresult = validate(vty, Stripped(vty, vvalue))
        /\ vresult = validate(vty, Stuffed(vty, vvalue))

\* a value with an undeclared key in a nested object, and with violations,
\* has been validated
C11_Witness ==
    /\ vpc = "ret"
    /\ HasNestedExtra(vty, vvalue, 0)
    /\ Stripped(vty, vvalue) # vvalue
    /\ Len(vresult.errors) >= 1

(***************************************************************************)
(* Properties of the retry loop.                                           *)
(***************************************************************************)
SchemaOf(t) == IF t = FD THEN feature_design_output_typedef ELSE formation_output_typedef

\* the invocation is over: it returned, or it unwound with a panic
Ended == pc \in {"returned", "panicked"}

LastOutcome == outcomes[Len(outcomes)]

\* needle occurs in hay as a run of consecutive pieces
Contains(hay, needle) ==
    \E i \in 0..(Len(hay) - Len(needle)) : SubSeq(hay, i + 1, i + Len(needle)) = needle

\* the response of the attempt was text that is not JSON
Unparseable(o) == o.kind \in {"parse", "panic"} /\ ~o.parsed.some

\* the response of the attempt was JSON that validate accepts
SchemaValid(o) == o.parsed.some /\ validate(SchemaOf(task), o.parsed.v).ok

\* ... and, for the formation task, with unit_count coordinates
Conformant(o) ==
    /\ SchemaValid(o)
    /\ task = FM => Len(o.parsed.v.m.coordinates.items) = input.unit_count

\* the fields of the decoded output are those of the JSON value
OutputMatches(out, v) ==
    IF task = FD
    THEN /\ out.name = v.m.name.s
         /\ out.rationale = v.m.rationale.s
         /\ Len(out.components) = Len(v.m.components.items)
         /\ \A i \in 1..Len(out.components) :
               /\ out.components[i].id = v.m.components.items[i].m.id.s
               /\ out.components[i].responsibility
                     = v.m.components.items[i].m.responsibility.s
               /\ out.components[i].api = v.m.components.items[i].m.api.s
         /\ Len(out.risks) = Len(v.m.risks.items)
         /\ \A i \in 1..Len(out.risks) : out.risks[i] = v.m.risks.items[i].s
    ELSE /\ Len(out.coordinates) = Len(v.m.coordinates.items)
         /\ \A i \in 1..Len(out.coordinates) :
               /\ out.coordinates[i].x = v.m.coordinates.items[i].m.x.s
               /\ out.coordinates[i].y = v.m.coordinates.items[i].m.y.s

\* C1: whatever the model answers, an invocation issues at most 3 model
\* calls and ends with a result (it never ends without one); when every
\* response was unparseable text the result is the parse-failure error.
C1_AtMostThreeCallsThenResult ==
    /\ calls <= max_retries
    /\ Ended => result.kind \in {"Ok", "Err"}
    /\ (Ended /\ \A i \in 1..Len(outcomes) : Unparseable(outcomes[i])) =>
          /\ Len(outcomes) = max_retries
          /\ result = Err(JsonExhausted(outcomes[max_retries].msg))

C3_TransportFatal ==
    \A i \in 1..Len(outcomes) :
        outcomes[i].kind = "transport" =>
            /\ i = Len(outcomes)
            /\ pc = "returned"
            /\ result = Err(outcomes[i].msg)
            /\ calls = i

\* the call of the second attempt failed: the third attempt is not used
C3_Witness ==
    /\ Len(outcomes) = 2
    /\ outcomes[1].kind \in {"parse", "validation", "count"}
    /\ outcomes[2].kind = "transport"
    /\ calls = 2

\* C4: after a parse failure in attempt n < 3 the prompt of attempt n+1
\* contains the parser message of attempt n; with invalid JSON on attempt 1
\* a second attempt is made, and with a conformant document on attempt 2
\* the invocation returns success after exactly 2 model calls.
C4_ParseErrorFedBack ==
    /\ (pc = "inflight" /\ attempt >= 1 /\ Unparseable(outcomes[attempt])) =>
          Contains(prompt, outcomes[attempt].msg)
    /\ (Ended /\ Len(outcomes) >= 1 /\ Unparseable(outcomes[1])) =>
          Len(outcomes) >= 2
    /\ (Ended /\ Len(outcomes) >= 2 /\ Unparseable(outcomes[1])
              /\ Conformant(outcomes[2])) =>
          /\ result.kind = "Ok"
          /\ calls = 2

\* C5: after a validation failure in attempt n < 3 the prompt of attempt
\* n+1 contains one line for every error of attempt n, all of them in the
\* order collected; the errors of a schema failure are those of validate.
C5_ValidationErrorsFedBack ==
    (pc = "inflight" /\ attempt >= 1
        /\ outcomes[attempt].kind \in {"validation", "count"}) =>
        LET o == outcomes[attempt]
        IN /\ o.kind = "validation" =>
                 o.errors = validate(SchemaOf(task), o.parsed.v).errors
           /\ o.errors # <<>>
           /\ Contains(prompt, <<ValidationHead>> \o ErrorLines(o.errors, 1)
                                  \o <<ValidationTail>>)

\* the prompt of a retry is in flight after an attempt with three or more
\* validation errors
C5_Witness ==
    /\ pc = "inflight"
    /\ attempt >= 1
    /\ outcomes[attempt].kind = "validation"
    /\ Len(outcomes[attempt].errors) >= 3

\* C6: when the third attempt ends in a validation failure, the invocation
\* returns an error that carries the attempt count and every violation of
\* that attempt.
C6_ExhaustedListsViolations ==
    (pc = "returned" /\ Len(outcomes) = max_retries
        /\ outcomes[max_retries].kind \in {"validation", "count"}) =>
        /\ result.kind = "Err"
        /\ Contains(result.err, <<ToString(max_retries)>>)
        /\ \A i \in 1..Len(outcomes[max_retries].errors) :
              Contains(result.err, to_string(outcomes[max_retries].errors[i]))

\* C7: when the response of the third attempt is not JSON, the invocation
\* returns the parse-failure error with the parser message of that attempt
\* and the attempt count 3.
C7_FinalParseErrorSurfaced ==
    (Ended /\ Len(outcomes) = max_retries /\ Unparseable(outcomes[max_retries])) =>
        /\ result.kind = "Err"
        /\ result.err = <<"LLM did not return valid JSON after ", "3",
                          " attempts. Last error: ">>
                           \o outcomes[max_retries].msg

\* the pieces of the line that reports `found` coordinates where
\* `expected` were requested
CountLine(expected, found) ==
    <<"- ", "Type mismatch at ", "$", ".", "coordinates", ": expected ",
      "array with exactly ", ToString(expected), " items", ", found ",
      "array with ", ToString(found), " items", "\n">>

\* C8: generate_formation never returns a schema-valid response whose
\* number of coordinates differs from unit_count; such an attempt ends like
\* a validation failure: with attempts left the next prompt carries exactly
\* one error line, at $.coordinates, with the expected and the found
\* count, and after the third attempt the invocation is exhausted.
C8_CountMismatchIsValidationFailure ==
    task = FM =>
        /\ result.kind = "Ok" => Len(result.out.coordinates) = input.unit_count
        /\ \A i \in 1..Len(outcomes) :
              (SchemaValid(outcomes[i]) /\ ~Conformant(outcomes[i])) =>
                  /\ outcomes[i].kind = "count"
                  /\ (i < max_retries /\ i = Len(outcomes)) =>
                        (~Ended /\ attempt = i)
                  /\ (i = max_retries /\ pc = "returned") =>
                        result = Err(OutputExhausted)
        /\ (pc = "inflight" /\ attempt >= 1
               /\ SchemaValid(outcomes[attempt]) /\ ~Conformant(outcomes[attempt])) =>
              /\ Contains(prompt,
                    <<ValidationHead>>
                    \o CountLine(input.unit_count,
                          Len(outcomes[attempt].parsed.v.m.coordinates.items))
                    \o <<ValidationTail>>)
              /\ ~Contains(prompt, <<JsonErrorHead>>)

\* three units were requested, the response had two coordinates, and the
\* retry prompt is in flight
C8_Witness ==
    /\ task = FM
    /\ input.unit_count = 3
    /\ pc = "inflight"
    /\ attempt >= 1
    /\ SchemaValid(outcomes[attempt])
    /\ Len(outcomes[attempt].parsed.v.m.coordinates.items) = 2
    /\ Contains(prompt, <<": expected ", "array with exactly ", "3", " items",
                          ", found ", "array with ", "2", " items">>)

\* C9: an invocation whose last response is a conformant document has
\* returned it, decoded field by field, with one model call per attempt
\* made; a conformant first response gives success with exactly one call.
C9_ImmediateSuccess ==
    (Ended /\ Len(outcomes) >= 1 /\ Conformant(LastOutcome)) =>
        /\ result.kind = "Ok"
        /\ OutputMatches(result.out, LastOutcome.parsed.v)
        /\ calls = Len(outcomes)

(***************************************************************************)
(* Properties of the dispatcher.                                           *)
(***************************************************************************)
\* C12: a request with an identifier the service does not know is answered
\* with not-found, and a request of a known task whose payload does not
\* decode with invalid-argument; in both cases the loop was never entered:
\* no model call, no attempt.
C12_DispatchErrorsFastFail ==
    /\ (rpc # "received" /\ request.shape_id \notin {FD, FM}) =>
          /\ rpc = "replied"
          /\ response = Status("NotFound", <<"unknown shape_id: ", request.shape_id>>)
          /\ calls = 0 /\ outcomes = <<>> /\ pc = "idle"
    /\ (rpc # "received" /\ request.shape_id \in {FD, FM}
           /\ ~decode_input(request.shape_id, request.input).ok) =>
          /\ rpc = "replied"
          /\ response.kind = "Status"
          /\ response.code = "InvalidArgument"
          /\ calls = 0 /\ outcomes = <<>> /\ pc = "idle"
    /\ (client.pc = "done" /\ response.kind = "Status"
           /\ response.code \in {"NotFound", "InvalidArgument"}) =>
          client.result.kind = "Err"

\* the caller got the error for a feature design request that carried the
\* well-formed input of the other task
C12_Witness ==
    /\ request.shape_id = FD
    /\ request.input.wellformed
    /\ response.kind = "Status"
    /\ response.code = "InvalidArgument"
    /\ client.pc = "done"

\* C13: the dispatcher sends a response with ok = true only with the
\* encoded output the loop returned for a value that passed validate; an
\* error returned by the loop (transport, parse exhaustion, validation
\* exhaustion, decode) is answered with a Status that carries the message
\* and no output, and the caller gets an error without a value.
C13_SuccessOnlyIfValidated ==
    /\ response.kind = "Ok" =>
          /\ response.body.ok
          /\ pc = "returned"
          /\ result.kind = "Ok"
          /\ SchemaValid(LastOutcome)
          /\ response.body.output = encode_output(task, result.out)
          /\ decode_output(task, response.body.output).ok
          /\ OutputMatches(decode_output(task, response.body.output).v,
                           LastOutcome.parsed.v)
    /\ (rpc = "replied" /\ pc = "returned" /\ result.kind = "Err") =>
          /\ response.kind = "Status"
          /\ response.code = "Internal"
          /\ response.message = <<"LLM error: ">> \o result.err
          /\ response.body = <<>>
    /\ (rpc = "replied" /\ pc = "returned"
           /\ LastOutcome.kind \in {"transport", "parse", "validation", "count"}) =>
          response.kind = "Status"
    /\ client.result.kind = "Ok" =>
          /\ response.kind = "Ok"
          /\ client.result.out = result.out
    /\ client.result.kind = "Err" => client.result.out = <<>>

\* the caller got the error of an invocation whose third attempt failed
\* validation
C13_Witness ==
    /\ rpc = "replied"
    /\ Len(outcomes) = max_retries
    /\ LastOutcome.kind = "validation"
    /\ response.kind = "Status"
    /\ client.pc = "done"
    /\ client.result.kind = "Err"

(***************************************************************************)
(* Properties of the Model Callers and of the sanitizer.                   *)
(***************************************************************************)
\* C14: whichever Model Caller delivered the text, what the loop parses is
\* the sanitized text: the parse result of a call is the parse result of
\* clean_json_response applied to the text the endpoint sent.
C14_SanitizedBeforeParse ==
    san_pc = "parsed" =>
        san_parsed.v = from_str_chars(clean_json_response(san_raw))

JsonTag == <<"j", "s", "o", "n">>

\* C15 as stated: for every JSON object document, the text made of a fence
\* with a language tag around the document with a trailing comma directly
\* before its closing brace is sanitized to valid JSON that parses to the
\* document's value.
C15_FencedTrailingCommaParses ==
    san_pc \in {"once", "twice"} =>
        \A tag \in LanguageTags, doc \in CleanDocs \ {DocEmpty} :
            san_raw = Fenced(tag, TrailingComma(doc, <<>>)) =>
                /\ from_str_chars(san_text.v).ok
                /\ from_str_chars(san_text.v) = from_str_chars(doc)

\* C15 as amended: the same, for the documents whose string literals hold
\* no brace and no comma.
C15_FencedTrailingCommaParsesPlain ==
    san_pc \in {"once", "twice"} =>
        \A tag \in LanguageTags, doc \in PlainDocs \ {DocEmpty} :
            san_raw = Fenced(tag, TrailingComma(doc, <<>>)) =>
                /\ from_str_chars(san_text.v).ok
                /\ from_str_chars(san_text.v) = from_str_chars(doc)
                /\ from_str_chars(doc).ok

\* the fenced {"a":1,} has been sanitized to {"a":1}
C15_Witness ==
    /\ san_pc = "once"
    /\ san_raw = Fenced(JsonTag, TrailingComma(DocA, <<>>))
    /\ san_text.v = DocA
    /\ from_str_chars(san_text.v) = ParseOk(JObj([a |-> JNum("1")]))

\* C16 as stated: for every clean JSON object document, sanitizing the
\* sanitized text gives the sanitized text.
C16_IdempotentOnCleanJson ==
    (san_pc = "twice" /\ san_raw \in CleanDocs) => san_again = san_text

\* C16 as amended: the same, for the clean documents whose string literals
\* hold no comma.
C16_IdempotentWithoutCommasInStrings ==
    (san_pc = "twice" /\ san_raw \in CleanDocs \ {DocCommasInString}) =>
        /\ from_str_chars(san_raw).ok
        /\ san_again = san_text

\* a clean document over several lines has been sanitized twice: the first
\* pass changed the text, the second did not
C16_Witness ==
    /\ san_pc = "twice"
    /\ san_raw = DocPretty
    /\ san_text.v # san_raw
    /\ san_again = san_text

\* ---------------------------------------------------------------------
\* C17: once the caller's overall timeout has fired, the caller holds a
\* timeout error for the whole invocation and the invocation issues no
\* further model call: no step taken after the timeout raises the number of
\* model calls.
C17_TimeoutEndsInvocation ==
    [][client.pc = "timed_out"
       => /\ client.result = Err(<<"Request timed out after ", "30s">>)
          /\ client'.pc = "timed_out"
          /\ calls' = calls]_vars

\* ---------------------------------------------------------------------
\* C19: within one invocation at most one model call is in flight: the
\* calls issued are never more than one ahead of the outcomes recorded, and
\* a call is issued only when every earlier call has its outcome recorded,
\* no answer is waiting to be parsed, and the outcome of the attempt before
\* is the feedback the loop holds.
C19_OneCallAtATime ==
    /\ [](calls - Len(outcomes) \in {0, 1})
    /\ [][calls' # calls
           => /\ calls' = calls + 1
              /\ Len(outcomes) = calls
              /\ llm_json_text = None
              /\ value = None
              /\ calls > 0
                 => LET o == outcomes[calls]
                    IN \/ o.kind = "parse" /\ last_json_error = Some(o.msg)
                       \/ o.kind \in {"validation", "count"}
                          /\ last_errors = Some(o.errors)]_vars

\* the call of a second attempt is in flight, the first attempt's outcome
\* being recorded
C19_Witness ==
    /\ pc = "inflight"
    /\ calls = 2
    /\ Len(outcomes) = 1

\* ---------------------------------------------------------------------
\* C20: at the start of every attempt, and in every other state of the
\* invocation, at most one of the two feedback values is set, and no prompt
\* built holds both the parse-error section and the validation-error
\* section.
C20_FeedbackExclusive ==
    /\ ~(last_errors.some /\ last_json_error.some)
    /\ ~(Contains(prompt, <<JsonErrorHead>>) /\ Contains(prompt, <<ValidationHead>>))

\* the third attempt is in flight after a validation failure followed by a
\* parse failure: its prompt carries the parse error
C20_Witness ==
    /\ pc = "inflight"
    /\ attempt = 2
    /\ outcomes[1].kind \in {"validation", "count"}
    /\ outcomes[2].kind = "parse"
    /\ Contains(prompt, <<JsonErrorHead>>)

\* ---------------------------------------------------------------------
\* C18: two calls served at once share no mutable state.  In every state of
\* every interleaving, each invocation's attempt counter, feedback, prompt
\* and result are those its own input and its own model responses give:
\* the counter is the number of its own finished attempts, the feedback is
\* what its own last attempt failed with, the prompt in flight is the one
\* built from its own input and that feedback, every outcome is the
\* judgement of its own response against its own input, and the result is
\* the one its own last outcome gives.
OwnFeedback(L) ==
    IF L.outcomes = <<>> THEN [errors |-> None, json_error |-> None]
    ELSE LET o == L.outcomes[Len(L.outcomes)]
         IN IF o.kind = "parse"
            THEN [errors |-> None, json_error |-> Some(o.msg)]
            ELSE IF o.kind \in {"validation", "count"}
            THEN [errors |-> Some(o.errors), json_error |-> None]
            ELSE [errors |-> None, json_error |-> None]

OwnPrompt(L) ==
    LET fb == OwnFeedback(L)
    IN IF L.task = FD
       THEN build_prompt(L.input, feature_design_output_typedef,
                         fb.errors, fb.json_error)
       ELSE build_formation_prompt(L.input, formation_output_typedef,
                                   fb.errors, fb.json_error)

OwnOutcome(L, o) ==
    /\ o.kind = "validation" =>
          /\ o.parsed.some
          /\ ~validate(SchemaOf(L.task), o.parsed.v).ok
          /\ o.errors = validate(SchemaOf(L.task), o.parsed.v).errors
    /\ o.kind = "count" =>
          /\ L.task = FM
          /\ validate(SchemaOf(FM), o.parsed.v).ok
          /\ LET n == Len(from_value_FormationOutput(o.parsed.v).out.coordinates)
             IN /\ n # L.input.unit_count
                /\ o.errors = <<CountMismatch(L.input.unit_count, n)>>
    /\ o.kind = "ok" =>
          /\ validate(SchemaOf(L.task), o.parsed.v).ok
          /\ L.task = FM =>
                Len(from_value_FormationOutput(o.parsed.v).out.coordinates)
                    = L.input.unit_count

OwnResult(L) ==
    LET o == L.outcomes[Len(L.outcomes)]
    IN /\ L.outcomes # <<>>
       /\ CASE o.kind = "ok" ->
                  L.result = Ok(IF L.task = FD
                                THEN from_value_FeatureDesignOutput(o.parsed.v).out
                                ELSE from_value_FormationOutput(o.parsed.v).out)
            [] o.kind = "transport" -> L.result = Err(o.msg)
            [] o.kind = "parse" -> L.result = Err(JsonExhausted(o.msg))
            [] o.kind = "decode" -> L.result = Err(DecodeFailed)
            [] o.kind \in {"validation", "count"} ->
                  /\ Len(L.outcomes) = max_retries
                  /\ L.result = Err(OutputExhausted)
            [] OTHER -> FALSE

InvocationOwn(L) ==
    /\ L.pc \in {"loop", "inflight", "received", "parsed"} =>
          /\ L.attempt = Len(L.outcomes)
          /\ L.last_errors = OwnFeedback(L).errors
          /\ L.last_json_error = OwnFeedback(L).json_error
          /\ L.result = NoResult
    /\ L.pc \in {"inflight", "received", "parsed"} =>
          /\ L.calls = L.attempt + 1
          /\ L.prompt = OwnPrompt(L)
    /\ \A k \in 1..Len(L.outcomes) : OwnOutcome(L, L.outcomes[k])
    /\ L.pc = "returned" => OwnResult(L)

C18_InvocationsIndependent ==
    /\ InvocationOwn(Running)
    /\ InvocationOwn(parked)

\* both calls are in their second attempt or later, one holding a parse
\* error as feedback and the other validation errors
C18_Witness ==
    /\ pc = "inflight"
    /\ parked.pc = "inflight"
    /\ last_json_error.some
    /\ parked.last_errors.some
    /\ input # parked.input

(***************************************************************************)
(* Positions of a validation.  A site is a schema, the value found at it   *)
(* and the path to it, written piece by piece: $ for the root, a dot and   *)
(* the name for a declared field that is present, the zero-based index in  *)
(* brackets for an element.                                                *)
(***************************************************************************)
RECURSIVE Sites(_, _, _)
Sites(ty, v, path) ==
    {<<ty, v, path>>}
    \cup (IF ty.k = "Object" /\ v.t = "object"
          THEN UNION {Sites(ty.fields[i].ty, v.m[ty.fields[i].name],
                            path \o <<".", ty.fields[i].name>>)
                         : i \in {j \in 1..Len(ty.fields) :
                                     ty.fields[j].name \in DOMAIN v.m}}
          ELSE {})
    \cup (IF ty.k = "List" /\ v.t = "array"
          THEN UNION {Sites(ty.inner[1], v.items[i],
                            path \o <<"[", ToString(i - 1), "]">>)
                         : i \in 1..Len(v.items)}
          ELSE {})

HasPrefix(path, prefix) ==
    Len(path) >= Len(prefix) /\ SubSeq(path, 1, Len(prefix)) = prefix

\* the errors reported at a path or below it, in the order reported
ErrorsUnder(errors, path) ==
    LET under(e) == HasPrefix(e.path, path)
    IN SelectSeq(errors, under)

ScalarKinds == {"Text", "Markdown", "Number", "Bool"}

\* the schema with Text and Markdown exchanged everywhere
RECURSIVE SwapText(_)
SwapText(ty) ==
    CASE ty.k = "Text" -> Markdown
      [] ty.k = "Markdown" -> Text
      [] ty.k = "List" -> List(SwapText(ty.inner[1]))
      [] ty.k = "Object" ->
            Object([i \in 1..Len(ty.fields) |->
                       FieldDef(ty.fields[i].name, SwapText(ty.fields[i].ty))])
      [] OTHER -> ty

\* C21: at every scalar position validate accepts exactly the values of the
\* matching JSON kind (Text and Markdown: string, Number: number, Bool:
\* boolean) and otherwise reports one TypeMismatch at that path with that
\* expected kind and the found kind of the value; exchanging Text and
\* Markdown in the schema changes no result.
C21_ScalarKinds ==
    vpc = "ret" =>
        /\ \A site \in Sites(vty, vvalue, <<"$">>) :
              site[1].k \in ScalarKinds =>
                 LET expected == CASE site[1].k \in {"Text", "Markdown"} -> "string"
                                   [] site[1].k = "Number" -> "number"
                                   [] site[1].k = "Bool" -> "boolean"
                 IN ErrorsUnder(vresult.errors, site[3]) =
                       (IF site[2].t = expected THEN <<>>
                        ELSE <<[kind |-> "TypeMismatch", path |-> site[3],
                                expected |-> <<expected>>, found |-> <<site[2].t>>]>>)
        /\ vresult = validate(SwapText(vty), vvalue)

\* a Markdown position inside an object, holding a value that is no
\* string, has been validated
C21_Witness ==
    /\ vpc = "ret"
    /\ \E site \in Sites(vty, vvalue, <<"$">>) :
          /\ site[1].k = "Markdown"
          /\ site[2].t # "string"
          /\ Len(site[3]) > 1
    /\ ~vresult.ok

\* the errors of validating an element on its own, its root being the path
\* given
Rebased(errors, path) ==
    [k \in 1..Len(errors) |->
        [errors[k] EXCEPT !.path = path \o Tail(errors[k].path)]]

\* the errors of the elements items[i..], each element validated on its own
\* at the path of the list with its zero-based index in brackets
RECURSIVE ElementErrorsAt(_, _, _, _)
ElementErrorsAt(elem, items, path, i) ==
    IF i > Len(items) THEN <<>>
    ELSE Rebased(validate(elem, items[i]).errors,
                 path \o <<"[", ToString(i - 1), "]">>)
         \o ElementErrorsAt(elem, items, path, i + 1)

\* C22: at every List position, an array has every element validated
\* against the element schema at the path of the list followed by the
\* zero-based index in brackets, the errors of all elements being reported
\* whatever the earlier elements are; a value that is no array has exactly
\* one TypeMismatch with expected array at the path of the list.  Every
\* path starts at the root $.
C22_ListElements ==
    vpc = "ret" =>
        /\ \A site \in Sites(vty, vvalue, <<"$">>) :
              site[1].k = "List" =>
                 ErrorsUnder(vresult.errors, site[3]) =
                    (IF site[2].t = "array"
                     THEN ElementErrorsAt(site[1].inner[1], site[2].items, site[3], 1)
                     ELSE <<[kind |-> "TypeMismatch", path |-> site[3],
                             expected |-> <<"array">>, found |-> <<site[2].t>>]>>)
        /\ \A k \in 1..Len(vresult.errors) : Head(vresult.errors[k].path) = "$"

\* a list of three objects inside an object has been validated: the second
\* element is defective and the third one is reported all the same, its
\* missing field at $.coordinates[2].y
C22_Witness ==
    /\ vpc = "ret"
    /\ \E k \in 1..Len(vresult.errors) :
          /\ k > 1
          /\ vresult.errors[k] =
                [kind |-> "MissingField",
                 path |-> <<"$", ".", "coordinates", "[", "2", "]", ".", "y">>,
                 expected |-> <<>>, found |-> <<>>]
          /\ vresult.errors[1].path
                = <<"$", ".", "coordinates", "[", "1", "]", ".", "x">>

\* the place of an error in the schema: for every step of its path below
\* the root, the position of the field among the declared fields of its
\* Object schema, or the index of the element
RECURSIVE SchemaPlace(_, _)
SchemaPlace(ty, steps) ==
    IF steps = <<>> THEN <<>>
    ELSE IF steps[1] = "."
    THEN LET i == CHOOSE j \in 1..Len(ty.fields) : ty.fields[j].name = steps[2]
         IN <<i>> \o SchemaPlace(ty.fields[i].ty, SubSeq(steps, 3, Len(steps)))
    ELSE LET n == CHOOSE j \in 0..(MaxItems + 2) : ToString(j) = steps[2]
         IN <<n>> \o SchemaPlace(ty.inner[1], SubSeq(steps, 4, Len(steps)))

\* place a comes before place b in a depth-first walk of the schema
Before(a, b) ==
    \E k \in 1..Len(a) :
        /\ k <= Len(b)
        /\ SubSeq(a, 1, k - 1) = SubSeq(b, 1, k - 1)
        /\ a[k] < b[k]

\* the orders in which the keys of an object can appear in a document
KeyOrders(keys) ==
    {order \in [1..Cardinality(keys) -> keys] :
        \A i, j \in 1..Cardinality(keys) : i # j => order[i] # order[j]}

\* the map a document gives when its members appear in the given order
RECURSIVE Inserted(_, _, _)
Inserted(m, order, i) ==
    IF i = 0 THEN <<>>
    ELSE MapPut(Inserted(m, order, i - 1), order[i], m[order[i]])

\* C23: validate is a function of the schema and the value, and its errors
\* come in the depth-first order of the schema: declared fields in the
\* order declared, elements by ascending index.  The order in which the
\* keys of an object appear in the document has no part in it.
C23_SchemaOrder ==
    vpc = "ret" =>
        /\ vresult = validate(vty, vvalue)
        /\ \A i, j \in 1..Len(vresult.errors) :
              i < j => Before(SchemaPlace(vty, Tail(vresult.errors[i].path)),
                              SchemaPlace(vty, Tail(vresult.errors[j].path)))
        /\ vvalue.t = "object" =>
              \A order \in KeyOrders(DOMAIN vvalue.m) :
                  vresult = validate(vty, JObj(Inserted(vvalue.m, order,
                                                        Cardinality(DOMAIN vvalue.m))))

\* an object with errors at three declared fields, and with three keys or
\* more, has been validated
C23_Witness ==
    /\ vpc = "ret"
    /\ vty.k = "Object"
    /\ vvalue.t = "object"
    /\ Cardinality(DOMAIN vvalue.m) >= 3
    /\ Len(vresult.errors) >= 3
    /\ \E i, j \in 1..Len(vresult.errors) :
          /\ vresult.errors[i].kind = "MissingField"
          /\ vresult.errors[j].kind = "TypeMismatch"
          /\ j < i

\* C29: at every Object position whose value is no JSON object, validate
\* reports exactly one error at that path or below it: the TypeMismatch
\* with expected object at the path itself.  None of the declared fields
\* below is reported, missing or otherwise.
C29_NonObjectOneError ==
    vpc = "ret" =>
        \A site \in Sites(vty, vvalue, <<"$">>) :
            (site[1].k = "Object" /\ site[2].t # "object") =>
                ErrorsUnder(vresult.errors, site[3]) =
                    <<[kind |-> "TypeMismatch", path |-> site[3],
                       expected |-> <<"object">>, found |-> <<site[2].t>>]>>

\* an Object schema with declared fields has met a value that is no object,
\* at the root and below it
C29_Witness ==
    /\ vpc = "ret"
    /\ \E site \in Sites(vty, vvalue, <<"$">>) :
          /\ site[1].k = "Object"
          /\ Len(site[1].fields) >= 1
          /\ site[2].t \in {"null", "array"}
          /\ Len(site[3]) > 1

\* C30: a declared field whose key is present with the value null is
\* reported as a TypeMismatch with found null at the path of the field,
\* whatever the schema of the field, and never as a MissingField; every
\* MissingField is at the path of a declared field whose key is absent.
C30_NullIsNotMissing ==
    vpc = "ret" =>
        /\ \A site \in Sites(vty, vvalue, <<"$">>) :
              (Len(site[3]) > 1 /\ site[3][Len(site[3]) - 1] = "."
                  /\ site[2].t = "null") =>
                 ErrorsUnder(vresult.errors, site[3]) =
                    <<[kind |-> "TypeMismatch", path |-> site[3],
                       expected |-> <<ExpectedKind(site[1])>>, found |-> <<"null">>]>>
        /\ \A k \in 1..Len(vresult.errors) :
              vresult.errors[k].kind = "MissingField" =>
                 \E site \in Sites(vty, vvalue, <<"$">>) :
                     /\ site[1].k = "Object"
                     /\ site[2].t = "object"
                     /\ \E i \in 1..Len(site[1].fields) :
                           /\ site[1].fields[i].name \notin DOMAIN site[2].m
                           /\ vresult.errors[k].path
                                 = site[3] \o <<".", site[1].fields[i].name>>

\* an object with one declared field null and another one absent has been
\* validated
C30_Witness ==
    /\ vpc = "ret"
    /\ vty.k = "Object"
    /\ vvalue.t = "object"
    /\ \E i, j \in 1..Len(vty.fields) :
          /\ vty.fields[i].name \in DOMAIN vvalue.m
          /\ vvalue.m[vty.fields[i].name] = JNull
          /\ vty.fields[j].name \notin DOMAIN vvalue.m
    /\ \E k \in 1..Len(vresult.errors) : vresult.errors[k].found = <<"null">>

\* the text has a comma followed only by whitespace and then a closing
\* brace or bracket
TrailingCommaLeft(cs) ==
    \E i \in 1..Len(cs) :
        /\ cs[i] = ","
        /\ \E j \in (i + 1)..Len(cs) :
              /\ cs[j] \in {"}", "]"}
              /\ \A k \in (i + 1)..(j - 1) : is_whitespace(cs[k])

\* C24: clean_json_response removes every trailing comma, whatever
\* whitespace stands between the comma and the closing brace: for a
\* document without commas in its string literals, given a trailing comma
\* and any gap of spaces, newlines or tabs before the closing brace, fenced
\* or not, the output has no comma followed only by whitespace and a closer.
C24_NoTrailingCommaLeft ==
    san_pc \in {"once", "twice"} =>
        \A doc \in PlainDocs \ {DocEmpty} :
            (\E gap \in Gaps \cup {<<"\t">>} :
                 Contains(san_raw, TrailingComma(doc, gap))) =>
                ~TrailingCommaLeft(san_text.v)

\* the text the control-character step works on: the text after the fence
\* is removed and the object is extracted
Extracted(raw) == extract_object(trim(strip_fence(trim(raw))))

\* the positions of a text that hold no control character other than a
\* newline or a tab
KeptPositions(cs) == {i \in 1..Len(cs) : cs[i] \in {"\n", "\t"} \/ ~is_control(cs[i])}

\* the k-th smallest element of a set of positions
Nth(S, k) == CHOOSE i \in S : Cardinality({j \in S : j < i}) = k - 1

Count(cs, c, first, j) == Cardinality({k \in first..j : cs[k] = c})

\* the slice that the claim describes, of the text left after the fence is
\* removed
BraceSlice(cs) ==
    LET opens == {i \in 1..Len(cs) : cs[i] = "{"}
        closes == {i \in 1..Len(cs) : cs[i] = "}"}
    IN IF opens = {} THEN cs
       ELSE LET first == CHOOSE i \in opens : \A j \in opens : i <= j
                zero == {j \in closes : /\ j > first
                                        /\ Count(cs, "{", first, j)
                                              = Count(cs, "}", first, j)}
            IN IF zero # {}
               THEN SubSeq(cs, first, CHOOSE j \in zero : \A k \in zero : j <= k)
               ELSE IF \E j \in closes : j > first
               THEN SubSeq(cs, first, CHOOSE j \in closes : \A k \in closes : k <= j)
               ELSE cs

ExampleCoordinates(p) ==
    LET open == CHOOSE i \in 1..Len(p) : p[i] = "{\"coordinates\":["
        close == CHOOSE j \in (open + 1)..Len(p) :
                     /\ p[j] = "]}\n"
                     /\ \A k \in (open + 1)..(j - 1) : p[k] # "]}\n"
    IN Cardinality({k \in (open + 1)..(close - 1) : p[k] # ","})

\* C27: for every requested unit_count the formation prompt states the
\* required number of coordinates and holds a worked example output with
\* exactly that number of coordinates.
C27_ExampleAtRequestedCount ==
    (task = FM /\ pc = "inflight") =>
        /\ Contains(prompt, <<"CRITICAL: You MUST generate EXACTLY ",
                              ToString(input.unit_count),
                              " coordinates (x, y pairs), no more, no less.\n">>)
        /\ Contains(prompt, <<"The coordinates array must contain exactly ",
                              ToString(input.unit_count), " items.\n">>)
        /\ ExampleCoordinates(prompt) = input.unit_count

\* the prompt of the invocation without any feedback
PlainPrompt ==
    IF task = FD
    THEN build_prompt(input, feature_design_output_typedef, None, None)
    ELSE build_formation_prompt(input, formation_output_typedef, None, None)

\* C28: the feedback in the prompt of an attempt comes from the outcome of
\* the attempt before it and from nothing else.  The prompt of the first
\* attempt has no feedback section; the prompt of a later attempt is the
\* prompt without feedback followed by the one section for the outcome of
\* the attempt before: after a parse failure and then a validation failure
\* the third prompt has no parse-error section, and the reverse.
C28_FeedbackFromLastAttemptOnly ==
    pc = "inflight" =>
        /\ attempt = 0 => prompt = PlainPrompt
        /\ attempt >= 1 =>
              LET o == outcomes[attempt]
              IN /\ o.kind = "parse" =>
                       prompt = PlainPrompt \o <<JsonErrorHead>> \o o.msg
                                   \o <<JsonErrorTail>>
                 /\ o.kind \in {"validation", "count"} =>
                       prompt = PlainPrompt \o <<ValidationHead>>
                                   \o ErrorLines(o.errors, 1) \o <<ValidationTail>>
        /\ (attempt = 2 /\ outcomes[1].kind = "parse"
                /\ outcomes[2].kind \in {"validation", "count"}) =>
              /\ ~Contains(prompt, <<JsonErrorHead>>)
              /\ ~Contains(prompt, outcomes[1].msg)
        /\ (attempt = 2 /\ outcomes[2].kind = "parse"
                /\ outcomes[1].kind \in {"validation", "count"}) =>
              ~Contains(prompt, <<ValidationHead>>)

\* the third attempt is in flight after a parse failure followed by a
\* validation failure
C28_Witness ==
    /\ pc = "inflight"
    /\ attempt = 2
    /\ outcomes[1].kind = "parse"
    /\ outcomes[2].kind = "validation"
    /\ Contains(prompt, <<ValidationHead>>)

(***************************************************************************)
(* The decode after a successful validation                                *)
(***************************************************************************)
\* from_value of the task whose output schema is ty
DecodeFor(ty, v) ==
    IF ty = feature_design_output_typedef THEN from_value_FeatureDesignOutput(v)
    ELSE from_value_FormationOutput(v)

\* C31: for both task schemas, every value that validate accepts decodes
\* into the task's output record, so the decode that follows a successful
\* validation has no error to return.
C31_ValidDecodes ==
    (/\ vpc = "ret"
     /\ vty \in {feature_design_output_typedef, formation_output_typedef}
     /\ vresult.ok) =>
        DecodeFor(vty, vvalue).ok

\* validate has accepted a formation document that carries an undeclared
\* key next to its coordinates
C31_Witness ==
    /\ vpc = "ret"
    /\ vty = formation_output_typedef
    /\ vresult.ok
    /\ vvalue.t = "object"
    /\ "extra" \in DOMAIN vvalue.m
    /\ Len(vvalue.m.coordinates.items) >= 1
    /\ from_value_FormationOutput(vvalue).ok

(***************************************************************************)
(* The diagnostic output of generate_feature_design                        *)
(***************************************************************************)
\* C32: diagnostic logging never changes the outcome of an invocation:
\* whatever the length of a response text and wherever its multi-byte
\* characters lie, generate_feature_design goes on to parse and validate
\* the text and ends in a returned Ok or Err; it never aborts in the
\* slices of the preview (500 bytes) or of the parse-failure line (200).
C32_LoggingNeverAborts ==
    task = FD =>
        /\ pc # "panicked"
        /\ \A i \in 1..Len(outcomes) : outcomes[i].kind # "panic"
        /\ pc = "returned" => result # NoResult

(***************************************************************************)
(* The sanitizer on a document that needs no repair                        *)
(***************************************************************************)
\* the positions of a text that lie inside a string literal (between the
\* quotes, an escape sequence counting with both its characters)
RECURSIVE StringPositions(_, _, _)
StringPositions(cs, i, inside) ==
    IF i > Len(cs) THEN {}
    ELSE IF ~inside
         THEN StringPositions(cs, i + 1, cs[i] = "\"")
    ELSE IF cs[i] = "\\"
         THEN ({i, i + 1} \cap (1..Len(cs))) \cup StringPositions(cs, i + 2, TRUE)
    ELSE IF cs[i] = "\""
         THEN StringPositions(cs, i + 1, FALSE)
    ELSE {i} \cup StringPositions(cs, i + 1, TRUE)

\* a valid JSON object document whose string literals hold no brace and no
\* comma
ValidPlainDocument(cs) ==
    /\ from_str_chars(cs).ok
    /\ from_str_chars(cs).v.t = "object"
    /\ \A i \in StringPositions(cs, 1, FALSE) : cs[i] \notin {"{", "}", ","}

\* C33: for every text that is a valid JSON object document whose string
\* literals hold no brace and no comma, the sanitized text is valid JSON and
\* parses to the value the text itself parses to.
C33_ValidDocumentKept ==
    (san_pc \in {"once", "twice"} /\ ValidPlainDocument(san_raw)) =>
        /\ from_str_chars(san_text.v).ok
        /\ from_str_chars(san_text.v) = from_str_chars(san_raw)

\* a nested document spread over lines, with whitespace around it, has been
\* sanitized: the text changed, the value did not
C33_Witness ==
    /\ san_pc = "once"
    /\ san_raw = <<" ", "\n">> \o DocNested \o <<"\r", "\n">>
    /\ ValidPlainDocument(san_raw)
    /\ san_text.v = DocNested
    /\ from_str_chars(san_text.v).v.m.b = JObj([c |-> JBool("true")])

(***************************************************************************)
(* The counter of the mock model server                                    *)
(***************************************************************************)
\* the connections whose request has been counted
Counted == {c \in 1..Len(conn) : conn[c].attempt > 0}
\* the connections whose task has ended
Finished == {c \in 1..Len(conn) : conn[c].pc \in {"closed", "panicked"}}

\* C34: the mock server counts the parsed POST /llm requests in one counter
\* shared by all connections: whatever the interleaving, the counter is the
\* number of counted requests and no two of them got the same count; the
\* first fail_attempts counted requests (and only they) receive the invalid
\* output, every later counted request receives the valid document; and a
\* request answered with 404 or 400 has not advanced the counter.
C34_SharedCounter ==
    /\ attempt_count = Cardinality(Counted)
    /\ \A c, d \in Counted : conn[c].attempt = conn[d].attempt => c = d
    /\ \A c \in 1..Len(conn) :
          conn[c].reply.status \in {404, 400} => c \notin Counted
    /\ \A c \in Counted \cap Finished :
          /\ conn[c].attempt <= fail_attempts =>
                conn[c].reply = HttpReply(200, InvalidOutput)
          /\ conn[c].attempt > fail_attempts =>
                conn[c].reply = HttpReply(200, ValidOutput)

====
